---- MODULE Spec2Model ----
(***************************************************************************)
(* Job orchestration and delivery subsystem of mgserver.                   *)
(*                                                                         *)
(* Two job stores coexist in the tree and are modelled side by side:       *)
(*   - the in-memory JobManager (services/job_manager.py) driven by        *)
(*     ImageService, the api handlers and the FaceFusionQueue worker;      *)
(*   - the database-backed Job/JobEvent tables (database.py) driven by     *)
(*     the pipelines of pipelines.py and process_image_with_webhook.       *)
(***************************************************************************)
EXTENDS Integers, Sequences, FiniteSets, TLC

\* ------------------------------------------------------------------ bounds
NumJobs == 2          \* in-memory jobs submitted through the api handlers
NumClients == 2       \* jobs handed to FaceFusionQueue.add_job by a direct caller
MaxFaces == 2         \* longest person_ids / source_faces list explored
NumDbJobs == 2        \* database-backed jobs
NumNotifyJobs == 1    \* JobManager jobs updated by a direct caller
MaxCalls == 2         \* update_status / update_job_status calls per such job
NumUnits == 5         \* coroutines handed to BackgroundTaskRunner.run_async_task

None == 0
JobIds == 1..NumJobs
ClientIds == (NumJobs + 1)..(NumJobs + NumClients)
DbJobIds == 1..NumDbJobs

\* ------------------------------------------------------------- variables
VARIABLES
    variant,        \* which of the coexisting entry points is deployed
    \* FaceFusionQueue (services/face_queue.py)
    queue,          \* self.queue: FIFO of job_data
    current_task,   \* self.current_task
    is_running,     \* self.is_running
    worker,         \* the task created by start(): position and locals of _worker
    procs,          \* FaceFusion subprocesses that have been started and not exited
    \* JobManager (services/job_manager.py) and the handlers that drive it
    jobs,           \* self.jobs: job_id -> record (or NoJob)
    hpc,            \* position of the handler task spawned for each job
    hreq,           \* request of each job: handler kind and person_ids
    mwebhooks,      \* _send_webhook tasks created by update_status, per job
    ncalls,         \* update_status / update_job_status calls made by a direct caller
    \* history (ghost) variables
    admitted,       \* job ids in add_job order
    finished,       \* jobs whose face sequence and callback have ended, in order
    swap_calls,     \* invocations of _run_single_face_swap, in order
    edit_state,     \* per in-memory job: state of its edit stage
    \* database job store (database.py) and the pipelines that drive it
    db_jobs,        \* Job table: id -> record (or NoJob)
    db_events,      \* JobEvent table: the rows of each job_id, in insertion order
    ppc,            \* position of the pipeline task of each database job
    preq,           \* request of each database job
    ff_lock,        \* holder of AsyncFileLock._locks["/tmp/facefusion.lock"]
    posts,          \* webhook POST attempts made by WebhookSender.send_webhook, per job
    env,            \* process environment: is WEBHOOK_URL set
    \* BackgroundTaskRunner (background/task_runner.py)
    executor,       \* self.executor: the ThreadPoolExecutor
    units           \* the coroutines handed to run_async_task, with their jobs

qvars == <<variant, queue, current_task, is_running, worker, procs>>
mvars == <<jobs, hpc, hreq, mwebhooks, ncalls, edit_state>>
gvars == <<admitted, finished, swap_calls>>
dvars == <<db_jobs, db_events, ppc, preq, ff_lock, posts, env>>
bvars == <<executor, units>>
vars == <<variant, queue, current_task, is_running, worker, procs, jobs, hpc, hreq,
          mwebhooks, ncalls, admitted, finished, swap_calls, edit_state,
          db_jobs, db_events, ppc, preq, ff_lock, posts, env, executor, units>>

NoJob == [absent |-> TRUE]

\* --------------------------------------------------------------- JobStatus
\* services/job_manager.py JobStatus enum values
QUEUED == "queued"
GPT_PROCESSING == "gpt_processing"
FACE_PROCESSING == "face_processing"
COMPLETED == "completed"
FAILED == "failed"

\* progress_map of JobManager.update_status
progress_map(status) ==
    CASE status = QUEUED -> 0
      [] status = GPT_PROCESSING -> 30
      [] status = FACE_PROCESSING -> 60
      [] status = COMPLETED -> 100
      [] status = FAILED -> 0 - 1
      [] OTHER -> 0

\* JobManager.create_job: the record stored under a fresh job_id
create_job(job_type) ==
    [type |-> job_type, status |-> QUEUED, result_path |-> "None",
     error |-> "None", progress |-> 0]

\* update_status that never reaches COMPLETED: the job is left as it was
update_status_not_completing(js, job_id, status, error) ==
    IF js[job_id] = NoJob \/ status = COMPLETED THEN js
    ELSE [js EXCEPT ![job_id] =
            [@ EXCEPT !.status = status,
                      !.error = IF error \notin {"None", ""} THEN error ELSE @,
                      !.progress = progress_map(status)]]

\* JobManager.update_status, the part that writes self.jobs.
\* error = "None" stands for the default argument, "" for an empty message;
\* both are falsy in `if error:`.
update_status(js, job_id, status, error) ==
    IF js[job_id] = NoJob THEN js
    ELSE [js EXCEPT ![job_id] =
            [@ EXCEPT !.status = status,
                      !.error = IF error \notin {"None", ""} THEN error ELSE @,
                      !.progress = progress_map(status)]]

\* JobManager.update_status, the webhook part: a _send_webhook task is created
\* when the new status is COMPLETED or FAILED and differs from the old one.
webhook_created(js, job_id, status) ==
    /\ js[job_id] # NoJob
    /\ status \in {COMPLETED, FAILED}
    /\ js[job_id].status # status

\* the task asyncio.create_task(self._send_webhook(job_id, status, error))
\* makes: its status argument, the POST attempts it has made and its position
hook_task(status) == [status |-> status, posts |-> <<>>, pc |-> "created"]

send_webhook_tasks(ws, js, job_id, status) ==
    IF webhook_created(js, job_id, status)
    THEN [ws EXCEPT ![job_id] = Append(@, hook_task(status))]
    ELSE ws

\* set_result leaving the job without its result_path
set_result_dropped(js, job_id, result_path) == js

\* JobManager.set_result
set_result(js, job_id, result_path) ==
    IF js[job_id] = NoJob THEN js
    ELSE [js EXCEPT ![job_id].result_path = result_path]

\* JobManager.update_job_progress
update_job_progress(js, job_id, progress) ==
    IF js[job_id] = NoJob THEN js
    ELSE [js EXCEPT ![job_id].progress = progress]

\* JobManager.update_job_error
update_job_error(js, job_id, error) ==
    IF js[job_id] = NoJob THEN js
    ELSE [js EXCEPT ![job_id].error = error]

\* JobManager.update_job_status: the string-keyed wrapper; unknown strings are ignored
status_map(status) ==
    CASE status = "done" -> COMPLETED
      [] status = "failed" -> FAILED
      [] status = "queued" -> QUEUED
      [] OTHER -> "unmapped"

update_job_status(js, job_id, status) ==
    IF status_map(status) = "unmapped" THEN js
    ELSE update_status(js, job_id, status_map(status), "None")

update_job_status_webhooks(ws, js, job_id, status) ==
    IF status_map(status) = "unmapped" THEN ws
    ELSE send_webhook_tasks(ws, js, job_id, status_map(status))

\* ------------------------------------------------------------ WebhookService
\* services/webhook_service.py: WebhookService.retry_count
retry_count == 1

\* _send_webhook line 70: only status 200 counts as sent.
\* 0 stands for a timeout or transport error (client.post raises).
hook_delivered(status_code) == status_code = 200
HookCodes == {0, 200, 204, 500}

\* the loop without its `return True`: a delivered attempt is followed by the next
webhook_attempt_without_return(task, status_code) ==
    [task EXCEPT !.posts = Append(@, status_code),
                 !.pc = IF Len(task.posts) < retry_count THEN "sleeping"
                        ELSE IF hook_delivered(status_code) THEN "sent"
                        ELSE "failed"]

\* one iteration of the loop of WebhookService._send_webhook, run by a
\* JobManager._send_webhook task: the POST and its awaited answer, then return
\* True ("sent"), sleep before the next attempt, or return False ("failed")
webhook_attempt(task, status_code) ==
    [task EXCEPT !.posts = Append(@, status_code),
                 !.pc = IF hook_delivered(status_code) THEN "sent"
                        ELSE IF Len(task.posts) < retry_count THEN "sleeping"
                        ELSE "failed"]

\* a _send_webhook task runs its next attempt
HookPost(j, t, status_code) ==
    /\ jobs[j] # NoJob
    /\ t \in 1..Len(mwebhooks[j])
    /\ mwebhooks[j][t].pc \in {"created", "sleeping"}
    /\ mwebhooks' = [mwebhooks EXCEPT ![j][t] = webhook_attempt(@, status_code)]
    /\ UNCHANGED <<qvars, gvars, dvars, bvars, jobs, hpc, hreq, ncalls, edit_state>>

\* ---- JobManager called directly: any sequence of update calls on a job
NotifyJobIds == 1..NumNotifyJobs

CallCreateJob(j) ==
    /\ jobs[j] = NoJob
    /\ \A k \in NotifyJobIds : k < j => jobs[k] # NoJob
    /\ jobs' = [jobs EXCEPT ![j] = create_job("full")]
    /\ UNCHANGED <<qvars, gvars, dvars, bvars, hpc, hreq, mwebhooks, ncalls, edit_state>>

CallUpdateStatus(j, status, error) ==
    /\ jobs[j] # NoJob
    /\ ncalls[j] < MaxCalls
    /\ ncalls' = [ncalls EXCEPT ![j] = @ + 1]
    /\ jobs' = update_status(jobs, j, status, error)
    /\ mwebhooks' = send_webhook_tasks(mwebhooks, jobs, j, status)
    /\ UNCHANGED <<qvars, gvars, dvars, bvars, hpc, hreq, edit_state>>

CallUpdateJobStatus(j, status) ==
    /\ jobs[j] # NoJob
    /\ ncalls[j] < MaxCalls
    /\ ncalls' = [ncalls EXCEPT ![j] = @ + 1]
    /\ jobs' = update_job_status(jobs, j, status)
    /\ mwebhooks' = update_job_status_webhooks(mwebhooks, jobs, j, status)
    /\ UNCHANGED <<qvars, gvars, dvars, bvars, hpc, hreq, edit_state>>

\* ---------------------------------------------------------- FaceFusionQueue
\* job_data handed to add_job:
\*   job_id, target_image (target_exists: the file is on disk), source_faces,
\*   callback ("_face_callback": the lambda of ImageService; "client": a
\*   coroutine function of another caller; "none": no callback key).
\* A source_faces entry is what the caller put in the list: kind "pair" is the
\* (index, path) tuple ImageService appends, kind "str" a plain path; exists
\* tells whether the path is on disk.
NoWorker == [pc |-> "none"]
IdleWorker == [pc |-> "idle"]

\* _process_face_swap: the output path of step i (1-based) of n
output_path(i, n) ==
    IF i = n THEN "final_result.jpg"
    ELSE "temp_step_" \o ToString(i) \o ".jpg"

\* Does the file current_target exist: the job's target as the caller says,
\* an output of an earlier successful step always.
target_present(job_data, current_target) ==
    IF current_target = job_data.target_image THEN job_data.target_exists ELSE TRUE

\* _run_single_face_swap up to its first suspension, for entry i of the list:
\* "proc" when the FaceFusion subprocess is created, otherwise the error
\* returned without creating one. Path(source_path) raises TypeError for a
\* tuple, which the function's own except turns into (False, str(e)).
run_single_face_swap(job_data, i, current_target) ==
    LET source == job_data.source_faces[i] IN
    IF source.kind # "str" THEN "TypeError"
    ELSE IF ~source.exists THEN "Source file not found"
    ELSE IF ~target_present(job_data, current_target) THEN "Target file not found"
    ELSE "proc"

\* The record of one invocation of _run_single_face_swap; face_position is the
\* enumerate() index of the loop in _process_face_swap (0-based);
\* n is the length of the job's source_faces list. result is
\* "running" while the subprocess is awaited, "failed" when the function
\* returned (False, ...), "ok" when it returned (True, output).
swap_call(job_data, i, current_target) ==
    [job_id |-> job_data.job_id, source |-> job_data.source_faces[i],
     target |-> current_target, face_position |-> i - 1,
     n |-> Len(job_data.source_faces),
     started |-> run_single_face_swap(job_data, i, current_target) = "proc",
     result |-> IF run_single_face_swap(job_data, i, current_target) = "proc"
                THEN "running" ELSE "failed"]

\* _run_single_face_swap lines 157-163: the invocation being awaited returns
swap_returned(calls, ok) ==
    [calls EXCEPT ![Len(calls)].result = IF ok THEN "ok" ELSE "failed"]

\* _face_callback recording the result of a failed sequence as well
face_callback_result_always(js, job_id, success, result) ==
    IF success
    THEN update_status(set_result(js, job_id, result), job_id, COMPLETED, "None")
    ELSE update_status(set_result(js, job_id, result), job_id, FAILED, result)

\* ImageService._face_callback
face_callback(js, job_id, success, result) ==
    IF success
    THEN update_status(set_result(js, job_id, result), job_id, COMPLETED, "None")
    ELSE update_status(js, job_id, FAILED, result)

face_callback_webhooks(ws, js, job_id, success) ==
    send_webhook_tasks(ws, js, job_id, IF success THEN COMPLETED ELSE FAILED)

\* _worker, lines 57-61: the sequence ended with (success, result); call the
\* callback. _face_callback never suspends, so the worker goes on to reset
\* current_task in the same step; a client callback is awaited.
WorkerFinish(job_data, success, result) ==
    /\ procs' = procs \ {p \in procs : p.job_id = job_data.job_id /\ worker.pc = "swap"}
    /\ IF job_data.callback = "client"
       THEN /\ worker' = [pc |-> "callback", job |-> job_data,
                          success |-> success, result |-> result]
            /\ current_task' = job_data.job_id
            /\ UNCHANGED <<jobs, mwebhooks, finished>>
       ELSE /\ worker' = IdleWorker
            /\ current_task' = None
            /\ finished' = Append(finished, [job_id |-> job_data.job_id,
                                              callback |-> job_data.callback,
                                              success |-> success,
                                              result |-> result,
                                              faces |-> Len(job_data.source_faces),
                                              raised |-> FALSE])
            /\ IF job_data.callback = "_face_callback"
               THEN /\ jobs' = face_callback(jobs, job_data.job_id, success, result)
                    /\ mwebhooks' = face_callback_webhooks(mwebhooks, jobs,
                                                           job_data.job_id, success)
               ELSE UNCHANGED <<jobs, mwebhooks>>

\* _process_face_swap from loop index i (1-based) on, up to the next suspension
WorkerStep(job_data, i, current_target, calls) ==
    IF i > Len(job_data.source_faces)
    THEN /\ WorkerFinish(job_data, TRUE, current_target)
         /\ swap_calls' = calls
    ELSE /\ swap_calls' = Append(calls, swap_call(job_data, i, current_target))
         /\ IF run_single_face_swap(job_data, i, current_target) = "proc"
            THEN /\ procs' = (procs \ {p \in procs : p.job_id = job_data.job_id
                                                      /\ worker.pc = "swap"})
                             \cup {[job_id |-> job_data.job_id, step |-> i]}
                 /\ worker' = [pc |-> "swap", job |-> job_data, i |-> i,
                               current_target |-> current_target]
                 /\ current_task' = job_data.job_id
                 /\ UNCHANGED <<jobs, mwebhooks, finished>>
            ELSE WorkerFinish(job_data, FALSE, "Face swap failed at step "
                                               \o ToString(i))

\* FaceFusionQueue.get_current_task
get_current_task == current_task

\* FaceFusionQueue.start
start ==
    /\ ~is_running
    /\ is_running' = TRUE
    /\ worker' = IdleWorker
    /\ UNCHANGED <<queue, current_task, procs>>

\* FaceFusionQueue.stop: the worker task is cancelled at the await it is
\* suspended in. CancelledError is not an Exception, so neither _worker nor
\* _run_single_face_swap catches it: current_task keeps its value, and a
\* subprocess being awaited is not terminated by the cancellation.
stop ==
    /\ is_running' = FALSE
    /\ worker' = NoWorker
    /\ UNCHANGED <<queue, current_task, procs>>

\* a handler that puts the job into the queue again after add_job returned
add_job_twice(job_data) ==
    /\ queue' = Append(Append(queue, job_data), job_data)
    /\ admitted' = Append(Append(admitted, job_data.job_id), job_data.job_id)

\* FaceFusionQueue.add_job
add_job(job_data) ==
    /\ queue' = Append(queue, job_data)
    /\ admitted' = Append(admitted, job_data.job_id)

\* _worker, lines 49-55: queue.get() returns a job
WorkerGet ==
    /\ worker.pc = "idle"
    /\ queue # <<>>
    /\ queue' = Tail(queue)
    /\ WorkerStep(Head(queue), 1, Head(queue).target_image, swap_calls)
    /\ UNCHANGED <<is_running, admitted>>

\* _process_face_swap going on to the next face whatever the swap returned
WorkerSwapDone_ignoring_failure(ok) ==
    /\ worker.pc = "swap"
    /\ WorkerStep(worker.job, worker.i + 1,
                  output_path(worker.i, Len(worker.job.source_faces)),
                  swap_returned(swap_calls, ok))
    /\ UNCHANGED <<queue, is_running, admitted>>

\* _run_single_face_swap, lines 155-163: the awaited subprocess exits.
\* ok: returncode 0 and the output file exists.
WorkerSwapDone(ok) ==
    /\ worker.pc = "swap"
    /\ IF ok
       THEN WorkerStep(worker.job, worker.i + 1,
                       output_path(worker.i, Len(worker.job.source_faces)),
                       swap_returned(swap_calls, TRUE))
       ELSE /\ WorkerFinish(worker.job, FALSE,
                            "Face swap failed at step " \o ToString(worker.i))
            /\ swap_calls' = swap_returned(swap_calls, FALSE)
    /\ UNCHANGED <<queue, is_running, admitted>>

\* _worker without its except clause: an exception of the callback ends the worker
WorkerCallbackDone_worker_ends(raised) ==
    /\ worker.pc = "callback"
    /\ worker' = NoWorker
    /\ current_task' = None
    /\ finished' = Append(finished, [job_id |-> worker.job.job_id,
                                      callback |-> worker.job.callback,
                                      success |-> worker.success,
                                      result |-> worker.result,
                                      faces |-> Len(worker.job.source_faces),
                                      raised |-> raised])
    /\ UNCHANGED <<queue, is_running, procs, jobs, mwebhooks, admitted, swap_calls>>

\* _worker whose except clause does not reset current_task
WorkerCallbackDone_keeping_current_task(raised) ==
    /\ worker.pc = "callback"
    /\ worker' = IdleWorker
    /\ current_task' = IF raised THEN current_task ELSE None
    /\ finished' = Append(finished, [job_id |-> worker.job.job_id,
                                      callback |-> worker.job.callback,
                                      success |-> worker.success,
                                      result |-> worker.result,
                                      faces |-> Len(worker.job.source_faces),
                                      raised |-> raised])
    /\ UNCHANGED <<queue, is_running, procs, jobs, mwebhooks, admitted, swap_calls>>

\* _worker, lines 59-67: the awaited client callback returns or raises; either
\* way (line 61 or line 67) current_task is reset and the loop goes on.
WorkerCallbackDone(raised) ==
    /\ worker.pc = "callback"
    /\ worker' = IdleWorker
    /\ current_task' = None
    /\ finished' = Append(finished, [job_id |-> worker.job.job_id,
                                      callback |-> worker.job.callback,
                                      success |-> worker.success,
                                      result |-> worker.result,
                                      faces |-> Len(worker.job.source_faces),
                                      raised |-> raised])
    /\ UNCHANGED <<queue, is_running, procs, jobs, mwebhooks, admitted, swap_calls>>

\* A FaceFusion subprocess whose awaiting worker was cancelled runs on and exits
\* by itself.
OrphanExit(p) ==
    /\ p \in procs
    /\ ~(worker.pc = "swap" /\ worker.job.job_id = p.job_id)
    /\ procs' = procs \ {p}
    /\ UNCHANGED <<queue, current_task, is_running, worker, jobs, mwebhooks,
                   admitted, finished, swap_calls>>

\* ------------------------------------------------- ImageService and handlers
\* A person_ids entry as the request gives it: "ok" a url whose file exists,
\* "empty" an empty string, "missing" a url whose file is not on disk.
FaceRefKinds == {"ok", "empty", "missing"}
PersonIdLists == UNION {[1..n -> FaceRefKinds] : n \in 0..MaxFaces}

Handlers == {"process_full_workflow", "process_gpt_only", "process_face_only",
             "handle_dummy_job", "handle_frame_job"}

\* api/jobs.py, api/frame.py: the job_type each endpoint passes to create_job
job_type_of(handler) ==
    CASE handler = "process_full_workflow" -> "full"
      [] handler = "process_gpt_only" -> "gpt_only"
      [] handler = "process_face_only" -> "face_only"
      [] handler = "handle_dummy_job" -> "full"
      [] handler = "handle_frame_job" -> "frame"

\* The methods JobManager defines (services/job_manager.py)
JobManagerMethods ==
    {"create_job", "update_status", "add_log", "set_result", "get_job",
     "get_all_jobs", "get_queue_status", "cleanup_old_jobs", "set_webhook_params",
     "update_job_status", "update_job_progress", "update_job_error", "_send_webhook"}

RECURSIVE person_paths_from(_, _)
\* ImageService.process_full_workflow lines 67-78 / process_face_only lines
\* 149-160: the (i, person_path) pairs of the usable entries, from index i on
person_paths_from(person_ids, i) ==
    IF i > Len(person_ids) THEN <<>>
    ELSE IF person_ids[i] = "ok"
         THEN <<[kind |-> "pair", index |-> i - 1, exists |-> TRUE]>>
              \o person_paths_from(person_ids, i + 1)
         ELSE person_paths_from(person_ids, i + 1)

person_paths(person_ids) == person_paths_from(person_ids, 1)

\* the face_job dict both ImageService methods build
face_job(job_id, target_image, target_exists, source_faces) ==
    [job_id |-> job_id, target_image |-> target_image,
     target_exists |-> target_exists, source_faces |-> source_faces,
     callback |-> "_face_callback"]

\* create_new_job / create_gpt_only_job / create_face_only_job /
\* create_legacy_job / create_frame_job: create the job and spawn its handler.
Submit(j, handler, person_ids, base_exists) ==
    /\ jobs[j] = NoJob
    /\ \A k \in JobIds : k < j => jobs[k] # NoJob
    /\ jobs' = [jobs EXCEPT ![j] = create_job(job_type_of(handler))]
    /\ hreq' = [hreq EXCEPT ![j] = [handler |-> handler, person_ids |-> person_ids,
                                    base_exists |-> base_exists]]
    /\ hpc' = [hpc EXCEPT ![j] = "start"]
    /\ UNCHANGED <<qvars, gvars, mwebhooks, edit_state>>

\* process_full_workflow line 44 / process_gpt_only line 115
GptProcessingStart(j) ==
    /\ hpc[j] = "start"
    /\ hreq[j].handler \in {"process_full_workflow", "process_gpt_only"}
    /\ jobs' = update_status(jobs, j, GPT_PROCESSING, "None")
    /\ mwebhooks' = send_webhook_tasks(mwebhooks, jobs, j, GPT_PROCESSING)
    /\ hpc' = [hpc EXCEPT ![j] = IF hreq[j].handler = "process_full_workflow"
                                 THEN "check" ELSE "gpt"]
    /\ edit_state' = [edit_state EXCEPT ![j] =
                         IF hreq[j].handler = "process_gpt_only" THEN "running" ELSE @]
    /\ UNCHANGED <<qvars, gvars, hreq>>

\* process_full_workflow lines 48-60: the base image must exist, then the edit
\* is handed to gpt_processor; lines 101-104 on the exception.
FullCheck(j) ==
    /\ hpc[j] = "check"
    /\ IF hreq[j].base_exists
       THEN /\ hpc' = [hpc EXCEPT ![j] = "gpt"]
            /\ edit_state' = [edit_state EXCEPT ![j] = "running"]
            /\ UNCHANGED <<jobs, mwebhooks>>
       ELSE /\ jobs' = update_status(jobs, j, FAILED, "Base image not found")
            /\ mwebhooks' = send_webhook_tasks(mwebhooks, jobs, j, FAILED)
            /\ hpc' = [hpc EXCEPT ![j] = "done"]
            /\ UNCHANGED edit_state
    /\ UNCHANGED <<qvars, gvars, hreq>>

\* process_full_workflow without the check of lines 61-62
gpt_failed_unchecked(success) == FALSE

\* process_full_workflow lines 61-62: `if not success: raise Exception(...)`
gpt_failed(success) == ~success

\* process_full_workflow lines 56-104 after gpt_processor.process_image has
\* returned (success, result)
FullGptDone(j, success) ==
    /\ hpc[j] = "gpt"
    /\ hreq[j].handler = "process_full_workflow"
    /\ hpc' = [hpc EXCEPT ![j] = "done"]
    /\ edit_state' = [edit_state EXCEPT ![j] = IF success THEN "ok" ELSE "failed"]
    /\ IF gpt_failed(success)
       THEN /\ jobs' = update_status(jobs, j, FAILED, "GPT generation failed")
            /\ mwebhooks' = send_webhook_tasks(mwebhooks, jobs, j, FAILED)
            /\ UNCHANGED <<qvars, gvars>>
       ELSE IF person_paths(hreq[j].person_ids) # <<>>
       THEN /\ jobs' = update_status(jobs, j, FACE_PROCESSING, "None")
            /\ mwebhooks' = send_webhook_tasks(mwebhooks, jobs, j, FACE_PROCESSING)
            /\ add_job(face_job(j, "gpt_result.jpg", TRUE,
                                person_paths(hreq[j].person_ids)))
            /\ UNCHANGED <<variant, current_task, is_running, worker, procs,
                           finished, swap_calls>>
       ELSE /\ jobs' = update_status(set_result(jobs, j, "gpt_result.jpg"),
                                     j, COMPLETED, "None")
            /\ mwebhooks' = send_webhook_tasks(mwebhooks, jobs, j, COMPLETED)
            /\ UNCHANGED <<qvars, gvars>>
    /\ UNCHANGED hreq

\* process_gpt_only calling gpt_processor.process_image again after a failure
GptOnlyDone_retrying(j, success, result) ==
    /\ hpc[j] = "gpt"
    /\ hreq[j].handler = "process_gpt_only"
    /\ edit_state' = [edit_state EXCEPT ![j] = IF success THEN "ok" ELSE "failed"]
    /\ IF success
       THEN /\ jobs' = update_status(set_result(jobs, j, "gpt_result.jpg"),
                                     j, COMPLETED, "None")
            /\ mwebhooks' = send_webhook_tasks(mwebhooks, jobs, j, COMPLETED)
            /\ hpc' = [hpc EXCEPT ![j] = "done"]
       ELSE IF edit_state[j] = "running"
       THEN UNCHANGED <<jobs, mwebhooks, hpc>>
       ELSE /\ jobs' = update_status(jobs, j, FAILED, result)
            /\ mwebhooks' = send_webhook_tasks(mwebhooks, jobs, j, FAILED)
            /\ hpc' = [hpc EXCEPT ![j] = "done"]
    /\ UNCHANGED <<qvars, gvars, hreq>>

\* process_gpt_only lines 120-134 after gpt_processor.process_image has
\* returned (success, result); result is str(e) on failure, possibly empty
GptOnlyDone(j, success, result) ==
    /\ hpc[j] = "gpt"
    /\ hreq[j].handler = "process_gpt_only"
    /\ hpc' = [hpc EXCEPT ![j] = "done"]
    /\ edit_state' = [edit_state EXCEPT ![j] = IF success THEN "ok" ELSE "failed"]
    /\ IF success
       THEN /\ jobs' = update_status(set_result(jobs, j, "gpt_result.jpg"),
                                     j, COMPLETED, "None")
            /\ mwebhooks' = send_webhook_tasks(mwebhooks, jobs, j, COMPLETED)
       ELSE /\ jobs' = update_status(jobs, j, FAILED, result)
            /\ mwebhooks' = send_webhook_tasks(mwebhooks, jobs, j, FAILED)
    /\ UNCHANGED <<qvars, gvars, hreq>>

\* process_face_only line 145
FaceProcessingStart(j) ==
    /\ hpc[j] = "start"
    /\ hreq[j].handler = "process_face_only"
    /\ jobs' = update_status(jobs, j, FACE_PROCESSING, "None")
    /\ mwebhooks' = send_webhook_tasks(mwebhooks, jobs, j, FACE_PROCESSING)
    /\ hpc' = [hpc EXCEPT ![j] = "faces"]
    /\ UNCHANGED <<qvars, gvars, hreq, edit_state>>

\* process_face_only lines 147-177
FaceOnlyAdmit(j) ==
    /\ hpc[j] = "faces"
    /\ hpc' = [hpc EXCEPT ![j] = "done"]
    /\ IF person_paths(hreq[j].person_ids) = <<>>
       THEN /\ jobs' = update_status(set_result(jobs, j, "target"), j, COMPLETED, "None")
            /\ mwebhooks' = send_webhook_tasks(mwebhooks, jobs, j, COMPLETED)
            /\ UNCHANGED <<qvars, gvars>>
       ELSE /\ add_job(face_job(j, "target", hreq[j].base_exists,
                                person_paths(hreq[j].person_ids)))
            /\ UNCHANGED <<variant, current_task, is_running, worker, procs,
                           finished, swap_calls, jobs, mwebhooks>>
    /\ UNCHANGED <<hreq, edit_state>>

\* handle_dummy_job lines 33-37, after the sleep
DummyDone(j) ==
    /\ hpc[j] = "start"
    /\ hreq[j].handler = "handle_dummy_job"
    /\ jobs' = update_job_progress(update_job_status(jobs, j, "done"), j, 100)
    /\ mwebhooks' = update_job_status_webhooks(mwebhooks, jobs, j, "done")
    /\ hpc' = [hpc EXCEPT ![j] = "done"]
    /\ UNCHANGED <<qvars, gvars, hreq, edit_state>>

\* handle_frame_job lines 30-51: validation, path check and
\* frame_processor.process_frame_job either raise (ok = FALSE, lines 80-82) or
\* the job is marked done.
FrameRun(j, ok) ==
    /\ hpc[j] = "start"
    /\ hreq[j].handler = "handle_frame_job"
    /\ jobs' = update_job_status(jobs, j, IF ok THEN "done" ELSE "failed")
    /\ mwebhooks' = update_job_status_webhooks(mwebhooks, jobs, j,
                                               IF ok THEN "done" ELSE "failed")
    /\ hpc' = [hpc EXCEPT ![j] = IF ok THEN "frame_progress" ELSE "frame_error"]
    /\ UNCHANGED <<qvars, gvars, hreq, edit_state>>

\* handle_frame_job line 52
FrameProgress(j) ==
    /\ hpc[j] = "frame_progress"
    /\ jobs' = update_job_progress(jobs, j, 100)
    /\ hpc' = [hpc EXCEPT ![j] = "frame_params"]
    /\ UNCHANGED <<qvars, gvars, hreq, edit_state, mwebhooks>>

\* handle_frame_job lines 55-82: job_manager.get_webhook_params(job_id); when
\* JobManager has no such method the AttributeError is caught by the handler's
\* except, which marks the job failed. Otherwise the frame webhook is sent.
FrameWebhookParams(j) ==
    /\ hpc[j] = "frame_params"
    /\ IF "get_webhook_params" \in JobManagerMethods
       THEN /\ hpc' = [hpc EXCEPT ![j] = "done"]
            /\ UNCHANGED <<jobs, mwebhooks>>
       ELSE /\ jobs' = update_job_status(jobs, j, "failed")
            /\ mwebhooks' = update_job_status_webhooks(mwebhooks, jobs, j, "failed")
            /\ hpc' = [hpc EXCEPT ![j] = "frame_error"]
    /\ UNCHANGED <<qvars, gvars, hreq, edit_state>>

\* handle_frame_job line 83
FrameError(j) ==
    /\ hpc[j] = "frame_error"
    /\ jobs' = update_job_error(jobs, j, "Frame job failed")
    /\ hpc' = [hpc EXCEPT ![j] = "done"]
    /\ UNCHANGED <<qvars, gvars, hreq, edit_state, mwebhooks>>

\* ------------------------------------------------------ database job store
\* models.py JobStatus, in the order progress_of_status lists it
order == <<"queued", "editing", "edited", "faceswap", "finalizing", "done", "failed">>

\* progress_of_status over a list that puts "failed" first
progress_of_status_failed_first(status) ==
    LET o == <<"failed", "queued", "editing", "edited", "faceswap", "finalizing",
               "done">> IN
    IF \E i \in 1..Len(o) : o[i] = status
    THEN (100 * ((CHOOSE i \in 1..Len(o) : o[i] = status) - 1)) \div (Len(o) - 1)
    ELSE 0

\* job_service.progress_of_status (utils.progress_of_status is the same text):
\* int(100 * order.index(status) / (len(order) - 1)), 0 for an unknown status
progress_of_status(status) ==
    IF \E i \in 1..Len(order) : order[i] = status
    THEN (100 * ((CHOOSE i \in 1..Len(order) : order[i] = status) - 1))
             \div (Len(order) - 1)
    ELSE 0

\* database.set_status, the Job row. error "None" is the default argument;
\* `if error:` skips it and the empty string.
set_status(dj, job_id, status, error) ==
    IF dj[job_id] = NoJob THEN dj
    ELSE [dj EXCEPT ![job_id] =
            [@ EXCEPT !.status = status,
                      !.error = IF error \notin {"None", ""} THEN error ELSE @]]

\* database.now_utc, as the rows of one job see it: every commit takes longer
\* than the resolution of the clock, so the value read for a new row is later
\* than the `at` of every row the job already has.
now_utc(rows) ==
    IF rows = <<>> THEN 1
    ELSE 1 + (CHOOSE m \in {rows[k].at : k \in 1..Len(rows)} :
                 \A k \in 1..Len(rows) : rows[k].at <= m)

\* get_job_events with order_by(JobEvent.at.desc())
get_job_events_newest_first(ev, job_id) ==
    SortSeq(ev[job_id], LAMBDA a, b : a.at > b.at)

\* database.get_job_events: the job's rows ordered by JobEvent.at
get_job_events(ev, job_id) ==
    SortSeq(ev[job_id], LAMBDA a, b : a.at < b.at)

\* set_status committing the Job row without its JobEvent row
set_status_event_left_out(ev, dj, job_id, status, by) == ev

\* database.set_status, the JobEvent row (by: the function that made the call)
set_status_event(ev, dj, job_id, status, by) ==
    IF dj[job_id] = NoJob THEN ev
    ELSE [ev EXCEPT ![job_id] = Append(@, [name |-> status, by |-> by,
                                           at |-> now_utc(@)])]

\* database.record_event: the event is added whether or not the job exists
record_event(ev, job_id, name, by) ==
    [ev EXCEPT ![job_id] = Append(@, [name |-> name, by |-> by, at |-> now_utc(@)])]

\* update_webhook_status given the literal "sent" whatever the notifier reported
update_webhook_status_always_sent(dj, job_id, status) ==
    IF dj[job_id] = NoJob THEN dj
    ELSE [dj EXCEPT ![job_id].webhook_status = "sent"]

\* update_webhook_status also recording a failed delivery in the job's status
update_webhook_status_into_status(dj, job_id, status) ==
    IF dj[job_id] = NoJob THEN dj
    ELSE [dj EXCEPT ![job_id].webhook_status = status,
                    ![job_id].status = IF status = "failed" THEN "failed" ELSE @]

\* database.update_webhook_status
update_webhook_status(dj, job_id, status) ==
    IF dj[job_id] = NoJob THEN dj
    ELSE [dj EXCEPT ![job_id].webhook_status = status]

Runners == {"process_image_with_webhook", "gpt_only_pipeline",
            "face_only_pipeline", "full_pipeline"}

\* the pipeline function a runner executes
pipeline_of(runner) ==
    IF runner = "process_image_with_webhook" THEN "gpt_only_pipeline" ELSE runner

\* job_service.create_image_job / create_gpt_job / create_face_job /
\* create_full_job: the Job each builds
new_job(runner) ==
    [mode |-> CASE pipeline_of(runner) = "gpt_only_pipeline" -> "gpt_only"
                [] runner = "face_only_pipeline" -> "face_only"
                [] runner = "full_pipeline" -> "both",
     status |-> "queued", error |-> "None",
     webhook_status |-> IF runner = "process_image_with_webhook"
                        THEN "pending" ELSE "None"]

\* webhook.WebhookSender.__init__: self.max_retries
max_retries == 3

\* send_webhook taking every answer of the endpoint as a delivery
delivered_any_answer(status_code) == status_code >= 200

\* WebhookSender.send_webhook line 64: the status codes that count as delivered.
\* 0 stands for a transport error or timeout (client.post raises).
delivered(status_code) == status_code \in {200, 201, 202, 204}
StatusCodes == {0, 200, 203, 500}

\* job_service.MEDIA_ROOT (hard-coded), utils.MEDIA_ROOT and pipelines.MEDIA_ROOT
\* (defaults of os.getenv)
JobServiceMediaRoot == "/home/catch/media"
UtilsMediaRoot == "/home/catch/media"
PipelinesMediaRoot == "/home/catch/media"

\* process_image_with_webhook line 110: result_image.exists() after the
\* pipeline has written final/result.png under its own JOBS_DIR
result_image_exists == JobServiceMediaRoot = PipelinesMediaRoot

\* to_public_url whose assertion fails for every path
to_public_url_rejects(media_root) == FALSE

\* utils.to_public_url line 32: the assertion on the path prefix
to_public_url_ok(media_root) == media_root = UtilsMediaRoot

\* database.create_job, then the endpoint spawns the runner
DbCreate(j, runner, faces) ==
    /\ db_jobs[j] = NoJob
    /\ \A k \in DbJobIds : k < j => db_jobs[k] # NoJob
    /\ db_jobs' = [db_jobs EXCEPT ![j] = new_job(runner)]
    /\ db_events' = [db_events EXCEPT ![j] =
                        Append(@, [name |-> "queued", by |-> "create_job",
                                   at |-> now_utc(@)])]
    /\ preq' = [preq EXCEPT ![j] = [runner |-> runner, faces |-> faces,
                                    raised |-> "none", error |-> "None",
                                    result |-> "None"]]
    /\ ppc' = [ppc EXCEPT ![j] = "start"]
    /\ UNCHANGED <<ff_lock, posts, env>>

\* the except branch of each pipeline (lines 378-383, 439-444, 515-520):
\* set_status(failed, error=str(e)), then re-raise to the runner
PipelineFail(j, stage, error) ==
    /\ db_jobs' = set_status(db_jobs, j, "failed", error)
    /\ db_events' = set_status_event(db_events, db_jobs, j, "failed",
                                     pipeline_of(preq[j].runner))
    /\ preq' = [preq EXCEPT ![j].raised = stage, ![j].error = error]
    /\ ppc' = [ppc EXCEPT ![j] = IF preq[j].runner = "process_image_with_webhook"
                                 THEN "except" ELSE "done"]

\* first statement of each pipeline's try (lines 340, 399, 458), up to the
\* await of the download
PipelineStart(j) ==
    /\ ppc[j] = "start"
    /\ LET first == IF preq[j].runner = "face_only_pipeline" THEN "faceswap"
                    ELSE "editing" IN
       /\ db_jobs' = set_status(db_jobs, j, first, "None")
       /\ db_events' = set_status_event(db_events, db_jobs, j, first,
                                        pipeline_of(preq[j].runner))
    /\ ppc' = [ppc EXCEPT ![j] = "download"]
    /\ UNCHANGED <<preq, ff_lock, posts, env>>

RECURSIVE set_statuses(_, _, _)
\* consecutive set_status calls of one pipeline, no failure in between: the Job row
set_statuses(dj, job_id, statuses) ==
    IF statuses = <<>> THEN dj
    ELSE set_statuses(set_status(dj, job_id, Head(statuses), "None"), job_id,
                      Tail(statuses))

RECURSIVE set_status_events(_, _, _, _, _)
\* consecutive set_status calls of one pipeline: the JobEvent rows
set_status_events(ev, dj, job_id, statuses, by) ==
    IF statuses = <<>> THEN ev
    ELSE set_status_events(set_status_event(ev, dj, job_id, Head(statuses), by),
                           dj, job_id, Tail(statuses), by)

\* download_and_strip (and download_faces, write_params_and_prompt) returned or
\* raised; error is str(e), empty for an httpx timeout without message.
\* On success the pipeline records its start event (lines 359, 422, 472) and
\* awaits the edit, or enters run_facefusion_runner (face_only_pipeline).
DownloadDone(j, error) ==
    /\ ppc[j] = "download"
    /\ IF error # "None"
       THEN PipelineFail(j, "download", error)
       ELSE /\ db_events' = record_event(db_events, j,
                               IF preq[j].runner = "face_only_pipeline"
                               THEN "faceswap:start" ELSE "gpt:start",
                               pipeline_of(preq[j].runner))
            /\ ppc' = [ppc EXCEPT ![j] = IF preq[j].runner = "face_only_pipeline"
                                         THEN "facefusion" ELSE "edit"]
            /\ UNCHANGED <<db_jobs, preq>>
    /\ UNCHANGED <<ff_lock, posts, env>>

\* gpt_edit_image (or the placeholder copy of full_pipeline) returned or raised.
\* gpt_only_pipeline lines 365-370; full_pipeline lines 484-505.
EditDone(j, ok) ==
    /\ ppc[j] = "edit"
    /\ IF ~ok
       THEN PipelineFail(j, "edit", "OpenAI image edit failed")
       ELSE /\ UNCHANGED preq
            /\ IF preq[j].runner = "full_pipeline"
               THEN LET statuses == IF preq[j].faces > 0 THEN <<"edited", "faceswap">>
                                    ELSE <<"edited">> IN
                    /\ db_jobs' = set_statuses(db_jobs, j, statuses)
                    /\ db_events' = set_status_events(
                           record_event(db_events, j, "gpt:done", "full_pipeline"),
                           db_jobs, j, statuses, "full_pipeline")
                    /\ ppc' = [ppc EXCEPT ![j] = IF preq[j].faces > 0
                                                 THEN "facefusion" ELSE "copy"]
               ELSE /\ db_events' = record_event(db_events, j, "gpt:done",
                                                 "gpt_only_pipeline")
                    /\ ppc' = [ppc EXCEPT ![j] = "copy"]
                    /\ UNCHANGED db_jobs
    /\ UNCHANGED <<ff_lock, posts, env>>

\* run_facefusion_runner lines 246-272: without face files the source is copied
\* without the lock; otherwise AsyncFileLock("/tmp/facefusion.lock") is acquired
\* once it is free and the copy is awaited inside it.
FaceFusionEnter(j) ==
    /\ ppc[j] = "facefusion"
    /\ IF preq[j].faces = 0
       THEN UNCHANGED ff_lock
       ELSE /\ ff_lock = None
            /\ ff_lock' = j
    /\ ppc' = [ppc EXCEPT ![j] = "swap_copy"]
    /\ UNCHANGED <<db_jobs, db_events, preq, posts, env>>

\* every pipeline closing with "done" alone
final_statuses_done_only(runner) == <<"done">>

\* the statuses a pipeline writes once its last stage has succeeded
\* (gpt_only_pipeline line 374, face_only_pipeline line 435, full_pipeline
\* lines 509-511)
final_statuses(runner) ==
    IF runner = "full_pipeline" THEN <<"finalizing", "done">> ELSE <<"done">>

\* process_image_with_webhook lines 108-122 after gpt_only_pipeline returned:
\* where the runner goes next
after_pipeline(runner) ==
    IF runner # "process_image_with_webhook" THEN "done"
    ELSE IF ~result_image_exists THEN "done"
    ELSE IF ~to_public_url_ok(JobServiceMediaRoot) THEN "except"
    ELSE IF env THEN "post_completed"
    ELSE "done"

\* the last stage of a pipeline succeeded, final/result.png being a copy of
\* `result`: final statuses, then the runner's own continuation
PipelineSucceed(j, ev, result) ==
    /\ db_jobs' = set_statuses(db_jobs, j, final_statuses(preq[j].runner))
    /\ db_events' = set_status_events(ev, db_jobs, j, final_statuses(preq[j].runner),
                                      pipeline_of(preq[j].runner))
    /\ ppc' = [ppc EXCEPT ![j] = after_pipeline(preq[j].runner)]
    /\ preq' = [preq EXCEPT ![j].error =
                   IF after_pipeline(preq[j].runner) = "except"
                   THEN "path not under MEDIA_ROOT" ELSE @,
                             ![j].result = result]

\* the first argument the pipeline gives run_facefusion_runner, which copies it
\* to final/result.png (face_only_pipeline line 426, full_pipeline line 499)
swap_source(runner) ==
    IF runner = "face_only_pipeline" THEN "input.png" ELSE "edited.png"

\* run_facefusion_runner releasing the lock only when the copy succeeded
SwapCopyDone_lock_kept_on_failure(j, ok) ==
    /\ ppc[j] = "swap_copy"
    /\ ff_lock' = IF ff_lock = j /\ ok THEN None ELSE ff_lock
    /\ IF ~ok
       THEN PipelineFail(j, "swap", "Face swap failed")
       ELSE PipelineSucceed(j, IF preq[j].runner = "face_only_pipeline"
                               THEN record_event(db_events, j, "faceswap:done",
                                                 "face_only_pipeline")
                               ELSE db_events,
                            swap_source(preq[j].runner))
    /\ UNCHANGED <<posts, env>>

\* run_facefusion_runner lines 273-281: the copy inside (or without) the lock
\* returned or raised; __aexit__ releases the lock either way.
SwapCopyDone(j, ok) ==
    /\ ppc[j] = "swap_copy"
    /\ ff_lock' = IF ff_lock = j THEN None ELSE ff_lock
    /\ IF ~ok
       THEN PipelineFail(j, "swap", "Face swap failed")
       ELSE PipelineSucceed(j, IF preq[j].runner = "face_only_pipeline"
                               THEN record_event(db_events, j, "faceswap:done",
                                                 "face_only_pipeline")
                               ELSE db_events,
                            swap_source(preq[j].runner))
    /\ UNCHANGED <<posts, env>>

\* shutil.copy2 of the edited image to final/result.png returned or raised
\* (gpt_only_pipeline line 370, full_pipeline line 505)
CopyDone(j, ok) ==
    /\ ppc[j] = "copy"
    /\ IF ~ok
       THEN PipelineFail(j, "copy", "No such file or directory")
       ELSE PipelineSucceed(j, db_events, "edited.png")
    /\ UNCHANGED <<ff_lock, posts, env>>

\* process_image_with_webhook whose except branch, after the failure
\* notification, reports the job with notify_job_success as well
WebhookExcept_then_success(j) ==
    /\ ppc[j] \in {"except", "done"}
    /\ preq[j].runner = "process_image_with_webhook"
    /\ IF ppc[j] = "except"
       THEN /\ db_jobs' = set_status(db_jobs, j, "failed", preq[j].error)
            /\ db_events' = set_status_event(db_events, db_jobs, j, "failed",
                                             "process_image_with_webhook")
            /\ ppc' = [ppc EXCEPT ![j] = IF env THEN "post_failed" ELSE "done"]
       ELSE /\ db_jobs[j].status = "failed" /\ env
            /\ Len(posts[j]) < max_retries
            /\ \A k \in 1..Len(posts[j]) : posts[j][k].event = "image-processing.failed"
            /\ ppc' = [ppc EXCEPT ![j] = "post_completed"]
            /\ UNCHANGED <<db_jobs, db_events>>
    /\ UNCHANGED <<preq, ff_lock, posts, env>>

\* process_image_with_webhook lines 124-137: the except branch
WebhookExcept(j) ==
    /\ ppc[j] = "except"
    /\ db_jobs' = set_status(db_jobs, j, "failed", preq[j].error)
    /\ db_events' = set_status_event(db_events, db_jobs, j, "failed",
                                     "process_image_with_webhook")
    /\ ppc' = [ppc EXCEPT ![j] = IF env THEN "post_failed" ELSE "done"]
    /\ UNCHANGED <<preq, ff_lock, posts, env>>

\* send_failure_webhook carrying the event type of send_success_webhook
event_of_completed(pc) == "image-processing.completed"

\* WebhookSender.send_success_webhook / send_failure_webhook: the event type
event_of(pc) ==
    IF pc = "post_completed" THEN "image-processing.completed"
    ELSE "image-processing.failed"

\* webhook.WEBHOOK_SECRET, the default secret of WebhookSender
WEBHOOK_SECRET == "your-webhook-secret-key"

\* str(e) as a sequence of code points: empty for the httpx timeout, ASCII for
\* the messages of this repository, and with one character outside ASCII for
\* the message that quotes the answer of the image service
error_text(error) ==
    CASE error \in {"None", ""} -> <<>>
      [] error = "OpenAI image edit failed" -> <<79, 54620>>
      [] error = "download failed" -> <<100>>
      [] OTHER -> <<88>>

\* the data dict of send_success_webhook / send_failure_webhook: event, jobId,
\* timestamp (read once, when the dict is built) and the error message
webhook_data(event_type, job_id, timestamp, message) ==
    [event |-> event_type, jobId |-> job_id, timestamp |-> timestamp,
     message |-> message]

\* json.dumps(data, ensure_ascii=False): the text, one code point per element;
\* characters outside ASCII are kept as they are
json_dumps(data) ==
    <<(IF data.event = "image-processing.completed" THEN 99 ELSE 102),
      48 + data.jobId, 48 + data.timestamp>> \o data.message

\* one hexadecimal digit as a character
hex_digit(n) == IF n < 10 THEN 48 + n ELSE 87 + n

RECURSIVE escape_non_ascii(_)
\* json.dumps(data) with the default ensure_ascii=True: \uXXXX escapes
escape_non_ascii(text) ==
    IF text = <<>> THEN <<>>
    ELSE (IF Head(text) < 128 THEN <<Head(text)>>
          ELSE <<92, 117, hex_digit(Head(text) \div 4096),
                 hex_digit((Head(text) \div 256) % 16),
                 hex_digit((Head(text) \div 16) % 16),
                 hex_digit(Head(text) % 16)>>)
         \o escape_non_ascii(Tail(text))

RECURSIVE str_encode(_)
\* str.encode(): UTF-8, one to three bytes per code point
str_encode(text) ==
    IF text = <<>> THEN <<>>
    ELSE (IF Head(text) < 128 THEN <<Head(text)>>
          ELSE IF Head(text) < 2048
          THEN <<192 + (Head(text) \div 64), 128 + (Head(text) % 64)>>
          ELSE <<224 + (Head(text) \div 4096), 128 + ((Head(text) \div 64) % 64),
                 128 + (Head(text) % 64)>>)
         \o str_encode(Tail(text))

\* hmac.new(key, msg, sha256).hexdigest(): equal digests stand for equal key
\* and message
hmac_sha256(key, msg) == [key |-> key, msg |-> msg]

\* WebhookSender.generate_signature
generate_signature(secret, payload) ==
    [prefix |-> "sha256=", hexdigest |-> hmac_sha256(secret, str_encode(payload))]

\* send_webhook posting with json=data: the client serialises the dict again,
\* with \uXXXX escapes
webhook_request_json_argument(secret, event_type, data) ==
    [content |-> str_encode(escape_non_ascii(json_dumps(data))),
     header_event |-> event_type,
     header_signature |-> generate_signature(secret, json_dumps(data))]

\* send_webhook lines 47-53 and 58-62: payload and headers are built once,
\* before the loop; client.post(content=payload) sends the str UTF-8 encoded
webhook_request(secret, event_type, data) ==
    [content |-> str_encode(json_dumps(data)),
     header_event |-> event_type,
     header_signature |-> generate_signature(secret, json_dumps(data))]

\* the request of attempt k for job j: client.post(webhook_url, content=payload,
\* headers=headers) with the payload built from the data dict whose timestamp
\* and error message the attempt recorded
posted_request(j, k) ==
    webhook_request(WEBHOOK_SECRET, posts[j][k].event,
                    webhook_data(posts[j][k].event, j, posts[j][k].timestamp,
                                 error_text(posts[j][k].error)))

\* WebhookSender.send_webhook lines 55-82: one pass of the loop. client.post
\* answered status_code (0: it raised). A delivered attempt returns True, the
\* last failed attempt returns False, and the runner records the outcome with
\* update_webhook_status; otherwise the loop sleeps and posts again.
PostDone(j, status_code) ==
    /\ ppc[j] \in {"post_completed", "post_failed"}
    /\ posts' = [posts EXCEPT ![j] =
                    Append(@, [event |-> event_of(ppc[j]),
                               status_code |-> status_code,
                               timestamp |-> now_utc(db_events[j]),
                               error |-> preq[j].error])]
    /\ IF delivered(status_code)
       THEN /\ db_jobs' = update_webhook_status(db_jobs, j, "sent")
            /\ ppc' = [ppc EXCEPT ![j] = "done"]
       ELSE IF Len(posts[j]) + 1 < max_retries
       THEN UNCHANGED <<db_jobs, ppc>>
       ELSE /\ db_jobs' = update_webhook_status(db_jobs, j, "failed")
            /\ ppc' = [ppc EXCEPT ![j] = "done"]
    /\ UNCHANGED <<db_events, preq, ff_lock, env>>

\* ------------------------------------------------------ BackgroundTaskRunner
\* get_task_runner: BackgroundTaskRunner(max_workers=4)
max_workers == 4
UnitIds == 1..NumUnits
WorkerThreads == 1..max_workers

\* A unit is a coroutine handed to run_async_task together with the job its
\* caller created for it. state: "none" not handed over yet, "queued" in the
\* executor's work queue, "running" inside run_in_new_loop, "done" / "raised"
\* how loop.run_until_complete(coro) ended, "rejected" submit() raised.
\* runs counts the executions of the coroutine, thread is the worker thread
\* executing it (None otherwise), inline tells whether it was ever executed on
\* the caller's thread, job is the status of the caller's job. section is the
\* position of the coroutine relative to `async with AsyncFileLock(...)` of
\* run_facefusion_runner: "none" before it, "checked" acquire() has read
\* _locked as False and not yet stored True, "waiting" suspended in acquire(),
\* "inside" in the critical section, "left" after __aexit__.
NoUnit == [state |-> "none", runs |-> 0, thread |-> None, inline |-> FALSE,
           job |-> "none", section |-> "none"]

\* the worker threads that are executing a unit
busy_threads == {units[u].thread : u \in {v \in UnitIds : units[v].state = "running"}}

\* run_async_task executing the coroutine itself, in the caller's thread, before
\* it returns
run_async_task_inline(ex, unit) ==
    [unit EXCEPT !.state = "done", !.runs = @ + 1, !.inline = TRUE, !.job = "done"]

\* run_async_task, the unit: executor.submit(run_in_new_loop) queues the work
\* item and returns its Future at once; after shutdown() it raises RuntimeError,
\* which run_async_task passes on to its caller.
run_async_task(ex, unit) ==
    IF ex.shutdown THEN [unit EXCEPT !.state = "rejected"]
    ELSE [unit EXCEPT !.state = "queued"]

\* run_async_task, the executor's work queue
run_async_task_queue(ex, u) ==
    IF ex.shutdown THEN ex
    ELSE [ex EXCEPT !.work_queue = Append(@, u)]

\* A caller creates its job (status queued) and hands the pipeline coroutine to
\* run_in_background, as the create endpoints do with their dispatch call; no
\* caller in the repository catches what the dispatch raises.
Dispatch(u) ==
    /\ units[u].state = "none"
    /\ \A v \in UnitIds : v < u => units[v].state # "none"
    /\ units' = [units EXCEPT ![u] = run_async_task(executor,
                                                    [@ EXCEPT !.job = "queued"])]
    /\ executor' = run_async_task_queue(executor, u)

\* a worker thread of the pool takes the oldest work item and enters
\* run_in_new_loop: new event loop, loop.run_until_complete(coro)
ThreadStart(t) ==
    /\ executor.work_queue # <<>>
    /\ t \notin busy_threads
    /\ LET u == Head(executor.work_queue) IN
       /\ units' = [units EXCEPT ![u].state = "running", ![u].runs = @ + 1,
                                  ![u].thread = t]
       /\ executor' = [executor EXCEPT !.work_queue = Tail(@)]

\* run_in_new_loop lines 51-62: the coroutine returned (ok) or raised; the
\* pipeline it runs has left its job done or failed; the loop is closed and the
\* outcome is stored in the Future
ThreadEnd(u, ok) ==
    /\ units[u].state = "running"
    /\ units[u].section \in {"none", "left"}
    /\ units' = [units EXCEPT ![u].state = IF ok THEN "done" ELSE "raised",
                               ![u].thread = None,
                               ![u].job = IF ok THEN "done" ELSE "failed"]
    /\ UNCHANGED executor

\* BackgroundTaskRunner.shutdown: executor.shutdown(wait); work items already
\* queued are still executed
Shutdown ==
    /\ ~executor.shutdown
    /\ executor' = [executor EXCEPT !.shutdown = TRUE]
    /\ UNCHANGED units

\* ---- pipelines of pipelines.py run by run_in_new_loop on the pool's threads.
\* AsyncFileLock._locks["/tmp/facefusion.lock"] is one asyncio.Lock shared by
\* every thread and event loop of the process (ff_lock: None when _locked is
\* False, else the unit that stored True last). asyncio.Lock is not
\* thread-safe: acquire() reads _locked and stores True in separate bytecodes,
\* so between two threads the read and the store are separate steps.
waiting_units == {u \in UnitIds : units[u].section = "waiting"}

\* Lock.acquire, lines `if not self._locked and ...`: the fast path is taken
\* when the lock is free and nobody waits; otherwise the coroutine goes to the
\* slow path, where the lock either suspends it on a future (wait) or raises
\* RuntimeError because it is used from another event loop.
LockCheck(u, slow) ==
    /\ units[u].state = "running" /\ units[u].section = "none"
    /\ IF ff_lock = None /\ waiting_units = {}
       THEN units' = [units EXCEPT ![u].section = "checked"]
       ELSE IF slow = "wait"
       THEN units' = [units EXCEPT ![u].section = "waiting"]
       ELSE units' = [units EXCEPT ![u].state = "raised", ![u].thread = None,
                                   ![u].job = "failed"]
    /\ UNCHANGED <<ff_lock, executor>>

\* Lock.acquire, `self._locked = True; return True`, then __aenter__ returns
LockSet(u) ==
    /\ units[u].state = "running" /\ units[u].section = "checked"
    /\ units' = [units EXCEPT ![u].section = "inside"]
    /\ ff_lock' = u
    /\ UNCHANGED executor

\* Lock.acquire after `await fut`: release() has woken the waiter, which takes
\* the lock
LockWake(u) ==
    /\ units[u].state = "running" /\ units[u].section = "waiting"
    /\ ff_lock = None
    /\ \A v \in UnitIds : units[v].section # "checked"
    /\ units' = [units EXCEPT ![u].section = "inside"]
    /\ ff_lock' = u
    /\ UNCHANGED executor

\* run_facefusion_runner lines 273-281 and __aexit__: the copy returned or
\* raised, and the lock is released either way
SectionEnd(u) ==
    /\ units[u].state = "running" /\ units[u].section = "inside"
    /\ units' = [units EXCEPT ![u].section = "left"]
    /\ ff_lock' = None
    /\ UNCHANGED executor

\* ------------------------------------------------------------ specifications
Clients == [job_id : ClientIds, target_image : {"target"}, target_exists : BOOLEAN,
            source_faces : UNION {[1..n -> [kind : {"str"}, index : {0},
                                            exists : BOOLEAN]] : n \in 0..MaxFaces},
            callback : {"client", "none"}]

\* a caller of the FaceFusionQueue api hands a job to add_job
ClientAdd(job_data) ==
    /\ job_data.job_id \notin {admitted[k] : k \in 1..Len(admitted)}
    /\ \A c \in ClientIds : c < job_data.job_id
                              => c \in {admitted[k] : k \in 1..Len(admitted)}
    /\ add_job(job_data)
    /\ UNCHANGED <<variant, current_task, is_running, worker, procs, finished,
                   swap_calls>>

InitCommon ==
    /\ queue = <<>>
    /\ current_task = None
    /\ procs = {}
    /\ jobs = [j \in JobIds |-> NoJob]
    /\ hpc = [j \in JobIds |-> "none"]
    /\ hreq = [j \in JobIds |-> NoJob]
    /\ mwebhooks = [j \in JobIds |-> <<>>]
    /\ ncalls = [j \in JobIds |-> 0]
    /\ executor = [shutdown |-> FALSE, work_queue |-> <<>>]
    /\ units = [u \in UnitIds |-> NoUnit]
    /\ admitted = <<>>
    /\ finished = <<>>
    /\ swap_calls = <<>>
    /\ edit_state = [j \in JobIds |-> "none"]
    /\ db_jobs = [j \in DbJobIds |-> NoJob]
    /\ db_events = [j \in DbJobIds |-> <<>>]
    /\ ppc = [j \in DbJobIds |-> "none"]
    /\ preq = [j \in DbJobIds |-> NoJob]
    /\ ff_lock = None
    /\ posts = [j \in DbJobIds |-> <<>>]

\* the FaceFusionQueue singleton as constructed (__init__), driven through its api
InitQueue ==
    /\ variant = "queue"
    /\ is_running = FALSE
    /\ worker = NoWorker
    /\ env = FALSE
    /\ InitCommon

\* main.py: the in-memory application after startup_event has started the worker
InitMem ==
    /\ variant = "memory"
    /\ is_running = TRUE
    /\ worker = IdleWorker
    /\ env = FALSE
    /\ InitCommon

\* the database-backed application; WEBHOOK_URL is set or not
InitDb ==
    /\ variant = "database"
    /\ is_running = FALSE
    /\ worker = NoWorker
    /\ env \in BOOLEAN
    /\ InitCommon

\* the JobManager singleton as constructed, called directly
InitNotify ==
    /\ variant = "notify"
    /\ is_running = FALSE
    /\ worker = NoWorker
    /\ env = FALSE
    /\ InitCommon

\* the BackgroundTaskRunner singleton as constructed (get_task_runner)
InitRunner ==
    /\ variant = "runner"
    /\ is_running = FALSE
    /\ worker = NoWorker
    /\ env = FALSE
    /\ InitCommon

\* the BackgroundTaskRunner singleton running pipelines of pipelines.py
InitThreads ==
    /\ variant = "threads"
    /\ is_running = FALSE
    /\ worker = NoWorker
    /\ env = FALSE
    /\ InitCommon

\* the job store of database.py after init_db, its functions called directly
InitStore ==
    /\ variant = "store"
    /\ is_running = FALSE
    /\ worker = NoWorker
    /\ env = FALSE
    /\ InitCommon

Init ==
    InitQueue \/ InitMem \/ InitDb \/ InitNotify \/ InitRunner \/ InitThreads
        \/ InitStore

\* ---- FaceFusionQueue driven through its api
QStart == variant = "queue" /\ start /\ UNCHANGED <<variant, mvars, gvars, dvars, bvars>>
QStop == variant = "queue" /\ stop /\ UNCHANGED <<variant, mvars, gvars, dvars, bvars>>
QClientAdd ==
    /\ variant = "queue"
    /\ \E job_data \in Clients : ClientAdd(job_data)
    /\ UNCHANGED <<mvars, dvars, bvars>>
QWorkerGet ==
    variant = "queue" /\ WorkerGet /\ UNCHANGED <<variant, hpc, hreq, ncalls, edit_state, dvars, bvars>>
QWorkerSwapDone ==
    /\ variant = "queue"
    /\ \E ok \in BOOLEAN : WorkerSwapDone(ok)
    /\ UNCHANGED <<variant, hpc, hreq, ncalls, edit_state, dvars, bvars>>
QWorkerCallbackDone ==
    /\ variant = "queue"
    /\ \E raised \in BOOLEAN : WorkerCallbackDone(raised)
    /\ UNCHANGED <<variant, hpc, hreq, ncalls, edit_state, dvars, bvars>>
QOrphanExit ==
    /\ variant = "queue"
    /\ \E p \in procs : OrphanExit(p)
    /\ UNCHANGED <<variant, hpc, hreq, ncalls, edit_state, dvars, bvars>>

NextQueue ==
    \/ QStart
    \/ QStop
    \/ QClientAdd
    \/ QWorkerGet
    \/ QWorkerSwapDone
    \/ QWorkerCallbackDone
    \/ QOrphanExit

\* ---- the in-memory application (main.py, api/jobs.py, api/frame.py)
\* the requests explored: person_ids and the presence of the base image only
\* where the handler reads them
Requests ==
    [handler : {"process_full_workflow", "process_face_only"},
     person_ids : PersonIdLists, base_exists : BOOLEAN]
    \cup [handler : {"process_gpt_only", "handle_dummy_job", "handle_frame_job"},
          person_ids : {<<>>}, base_exists : {TRUE}]

MSubmit ==
    /\ variant = "memory"
    /\ \E j \in JobIds, r \in Requests : Submit(j, r.handler, r.person_ids, r.base_exists)
    /\ UNCHANGED <<ncalls, dvars, bvars>>
MGptProcessingStart ==
    variant = "memory" /\ (\E j \in JobIds : GptProcessingStart(j)) /\ UNCHANGED <<ncalls, dvars, bvars>>
MFullCheck == variant = "memory" /\ (\E j \in JobIds : FullCheck(j)) /\ UNCHANGED <<ncalls, dvars, bvars>>
MFullGptDone ==
    /\ variant = "memory"
    /\ \E j \in JobIds, ok \in BOOLEAN : FullGptDone(j, ok)
    /\ UNCHANGED <<ncalls, dvars, bvars>>
MGptOnlyDone ==
    /\ variant = "memory"
    /\ \E j \in JobIds, ok \in BOOLEAN, e \in {"", "insufficient_quota"} :
          GptOnlyDone(j, ok, IF ok THEN "gpt_result.jpg" ELSE e)
    /\ UNCHANGED <<ncalls, dvars, bvars>>
MFaceProcessingStart ==
    variant = "memory" /\ (\E j \in JobIds : FaceProcessingStart(j)) /\ UNCHANGED <<ncalls, dvars, bvars>>
MFaceOnlyAdmit ==
    variant = "memory" /\ (\E j \in JobIds : FaceOnlyAdmit(j)) /\ UNCHANGED <<ncalls, dvars, bvars>>
MDummyDone == variant = "memory" /\ (\E j \in JobIds : DummyDone(j)) /\ UNCHANGED <<ncalls, dvars, bvars>>
MFrameRun ==
    /\ variant = "memory"
    /\ \E j \in JobIds, ok \in BOOLEAN : FrameRun(j, ok)
    /\ UNCHANGED <<ncalls, dvars, bvars>>
MFrameProgress ==
    variant = "memory" /\ (\E j \in JobIds : FrameProgress(j)) /\ UNCHANGED <<ncalls, dvars, bvars>>
MFrameWebhookParams ==
    variant = "memory" /\ (\E j \in JobIds : FrameWebhookParams(j)) /\ UNCHANGED <<ncalls, dvars, bvars>>
MFrameError == variant = "memory" /\ (\E j \in JobIds : FrameError(j)) /\ UNCHANGED <<ncalls, dvars, bvars>>
MWorkerGet ==
    variant = "memory" /\ WorkerGet /\ UNCHANGED <<variant, hpc, hreq, ncalls, edit_state, dvars, bvars>>
\* main.py shutdown_event
shutdown_event ==
    variant = "memory" /\ is_running /\ stop /\ UNCHANGED <<variant, mvars, gvars, dvars, bvars>>

NextMem ==
    \/ MSubmit
    \/ MGptProcessingStart
    \/ MFullCheck
    \/ MFullGptDone
    \/ MGptOnlyDone
    \/ MFaceProcessingStart
    \/ MFaceOnlyAdmit
    \/ MDummyDone
    \/ MFrameRun
    \/ MFrameProgress
    \/ MFrameWebhookParams
    \/ MFrameError
    \/ MWorkerGet
    \/ shutdown_event

\* ---- the database-backed application (database.py, job_service.py, pipelines.py)
DCreate ==
    /\ variant = "database"
    /\ \E j \in DbJobIds, r \in Runners, n \in 0..MaxFaces :
          /\ r \in {"process_image_with_webhook", "gpt_only_pipeline"} => n = 0
          /\ DbCreate(j, r, n)
    /\ UNCHANGED <<qvars, mvars, gvars, bvars>>
DPipelineStart ==
    /\ variant = "database"
    /\ \E j \in DbJobIds : PipelineStart(j)
    /\ UNCHANGED <<qvars, mvars, gvars, bvars>>
DDownloadDone ==
    /\ variant = "database"
    /\ \E j \in DbJobIds, e \in {"None", "", "download failed"} : DownloadDone(j, e)
    /\ UNCHANGED <<qvars, mvars, gvars, bvars>>
DEditDone ==
    /\ variant = "database"
    /\ \E j \in DbJobIds, ok \in BOOLEAN : EditDone(j, ok)
    /\ UNCHANGED <<qvars, mvars, gvars, bvars>>
DFaceFusionEnter ==
    /\ variant = "database"
    /\ \E j \in DbJobIds : FaceFusionEnter(j)
    /\ UNCHANGED <<qvars, mvars, gvars, bvars>>
DSwapCopyDone ==
    /\ variant = "database"
    /\ \E j \in DbJobIds, ok \in BOOLEAN : SwapCopyDone(j, ok)
    /\ UNCHANGED <<qvars, mvars, gvars, bvars>>
DCopyDone ==
    /\ variant = "database"
    /\ \E j \in DbJobIds, ok \in BOOLEAN : CopyDone(j, ok)
    /\ UNCHANGED <<qvars, mvars, gvars, bvars>>
DWebhookExcept ==
    /\ variant = "database"
    /\ \E j \in DbJobIds : WebhookExcept(j)
    /\ UNCHANGED <<qvars, mvars, gvars, bvars>>
DPostDone ==
    /\ variant = "database"
    /\ \E j \in DbJobIds, c \in StatusCodes : PostDone(j, c)
    /\ UNCHANGED <<qvars, mvars, gvars, bvars>>

NextDb ==
    \/ DCreate
    \/ DPipelineStart
    \/ DDownloadDone
    \/ DEditDone
    \/ DFaceFusionEnter
    \/ DSwapCopyDone
    \/ DCopyDone
    \/ DWebhookExcept
    \/ DPostDone

\* ---- JobManager and WebhookService driven through JobManager's api
NCreateJob == variant = "notify" /\ \E j \in NotifyJobIds : CallCreateJob(j)
NUpdateStatus ==
    /\ variant = "notify"
    /\ \E j \in NotifyJobIds,
          status \in {QUEUED, GPT_PROCESSING, FACE_PROCESSING, COMPLETED, FAILED},
          error \in {"None", "boom"} :
          CallUpdateStatus(j, status, error)
NUpdateJobStatus ==
    /\ variant = "notify"
    /\ \E j \in NotifyJobIds, status \in {"done", "failed", "queued", "processing"} :
          CallUpdateJobStatus(j, status)
NHookPost ==
    /\ variant = "notify"
    /\ \E j \in NotifyJobIds, t \in 1..MaxCalls, c \in HookCodes : HookPost(j, t, c)

NextNotify ==
    \/ NCreateJob
    \/ NUpdateStatus
    \/ NUpdateJobStatus
    \/ NHookPost

\* ---- BackgroundTaskRunner driven through run_in_background and shutdown
RDispatch ==
    /\ variant = "runner"
    /\ \E u \in UnitIds : Dispatch(u)
    /\ UNCHANGED <<qvars, mvars, gvars, dvars>>
RThreadStart ==
    /\ variant = "runner"
    /\ \E t \in WorkerThreads : ThreadStart(t)
    /\ UNCHANGED <<qvars, mvars, gvars, dvars>>
RThreadEnd ==
    /\ variant = "runner"
    /\ \E u \in UnitIds, ok \in BOOLEAN : ThreadEnd(u, ok)
    /\ UNCHANGED <<qvars, mvars, gvars, dvars>>
RShutdown ==
    /\ variant = "runner"
    /\ Shutdown
    /\ UNCHANGED <<qvars, mvars, gvars, dvars>>

NextRunner ==
    \/ RDispatch
    \/ RThreadStart
    \/ RThreadEnd
    \/ RShutdown

\* ---- pipelines dispatched with run_in_background
tvars == <<variant, queue, current_task, is_running, worker, procs, mvars, gvars,
           db_jobs, db_events, ppc, preq, posts, env>>
TDispatch ==
    /\ variant = "threads"
    /\ \E u \in UnitIds : Dispatch(u)
    /\ UNCHANGED <<tvars, ff_lock>>
TThreadStart ==
    /\ variant = "threads"
    /\ \E t \in WorkerThreads :
          /\ \A v \in WorkerThreads : v < t => v \in busy_threads
          /\ ThreadStart(t)
    /\ UNCHANGED <<tvars, ff_lock>>
TLockCheck ==
    /\ variant = "threads"
    /\ \E u \in UnitIds, slow \in {"wait", "raise"} : LockCheck(u, slow)
    /\ UNCHANGED tvars
TLockSet == variant = "threads" /\ (\E u \in UnitIds : LockSet(u)) /\ UNCHANGED tvars
TLockWake == variant = "threads" /\ (\E u \in UnitIds : LockWake(u)) /\ UNCHANGED tvars
TSectionEnd == variant = "threads" /\ (\E u \in UnitIds : SectionEnd(u)) /\ UNCHANGED tvars
TThreadEnd ==
    /\ variant = "threads"
    /\ \E u \in UnitIds, ok \in BOOLEAN : ThreadEnd(u, ok)
    /\ UNCHANGED <<tvars, ff_lock>>

NextThreads ==
    \/ TDispatch
    \/ TThreadStart
    \/ TLockCheck
    \/ TLockSet
    \/ TLockWake
    \/ TSectionEnd
    \/ TThreadEnd

\* ---- database.py called directly, with job ids that exist and that do not
svars == <<qvars, mvars, gvars, bvars, ppc, ff_lock, posts, env>>
\* database.create_job; no pipeline is started for the job
CallDbCreateJob ==
    /\ variant = "store"
    /\ \E j \in DbJobIds :
          /\ db_jobs[j] = NoJob
          /\ db_jobs' = [db_jobs EXCEPT ![j] = new_job("gpt_only_pipeline")]
          /\ db_events' = [db_events EXCEPT ![j] =
                              Append(@, [name |-> "queued", by |-> "create_job",
                                         at |-> now_utc(@)])]
          /\ preq' = [preq EXCEPT ![j] = [runner |-> "none", faces |-> 0,
                                          raised |-> "none", error |-> "None",
                                          result |-> "None"]]
    /\ UNCHANGED svars
\* database.set_status
CallSetStatus ==
    /\ variant = "store"
    /\ \E j \in DbJobIds, status \in {"editing", "failed"} :
          LET error == IF status = "failed" THEN "boom" ELSE "None" IN
          /\ Len(db_events[j]) <= MaxCalls
          /\ db_jobs' = set_status(db_jobs, j, status, error)
          /\ db_events' = set_status_event(db_events, db_jobs, j, status, "caller")
    /\ UNCHANGED <<svars, preq>>
\* database.record_event
CallRecordEvent ==
    /\ variant = "store"
    /\ \E j \in DbJobIds, name \in {"gpt:start"} :
          /\ Len(db_events[j]) <= MaxCalls
          /\ db_events' = record_event(db_events, j, name, "caller")
    /\ UNCHANGED <<svars, db_jobs, preq>>

NextStore ==
    \/ CallDbCreateJob
    \/ CallSetStatus
    \/ CallRecordEvent

Next ==
    NextQueue \/ NextMem \/ NextDb \/ NextNotify \/ NextRunner \/ NextThreads
        \/ NextStore

SpecQueue == InitQueue /\ [][NextQueue]_vars
SpecMem == InitMem /\ [][NextMem]_vars
SpecDb == InitDb /\ [][NextDb]_vars
SpecNotify == InitNotify /\ [][NextNotify]_vars
SpecThreads == InitThreads /\ [][NextThreads]_vars
SpecStore == InitStore /\ [][NextStore]_vars

\* Both applications with the face-queue worker started and never stopped, under
\* fair scheduling: the event loop runs every task that is ready, and every
\* awaited external operation (download, edit, swap, copy, webhook POST)
\* returns or raises.
InitLive == InitMem \/ InitDb
NextMemRunning ==
    \/ MSubmit
    \/ MGptProcessingStart
    \/ MFullCheck
    \/ MFullGptDone
    \/ MGptOnlyDone
    \/ MFaceProcessingStart
    \/ MFaceOnlyAdmit
    \/ MDummyDone
    \/ MFrameRun
    \/ MFrameProgress
    \/ MFrameWebhookParams
    \/ MFrameError
    \/ MWorkerGet
NextLive == NextMemRunning \/ NextDb
FairLive ==
    /\ WF_vars(MGptProcessingStart) /\ WF_vars(MFullCheck) /\ WF_vars(MFullGptDone)
    /\ WF_vars(MGptOnlyDone) /\ WF_vars(MFaceProcessingStart)
    /\ WF_vars(MFaceOnlyAdmit) /\ WF_vars(MDummyDone) /\ WF_vars(MFrameRun)
    /\ WF_vars(MFrameProgress) /\ WF_vars(MFrameWebhookParams)
    /\ WF_vars(MFrameError) /\ WF_vars(MWorkerGet)
    /\ WF_vars(DPipelineStart) /\ WF_vars(DDownloadDone) /\ WF_vars(DEditDone)
    /\ WF_vars(DFaceFusionEnter) /\ WF_vars(DSwapCopyDone) /\ WF_vars(DCopyDone)
    /\ WF_vars(DWebhookExcept) /\ WF_vars(DPostDone)
SpecLive == InitLive /\ [][NextLive]_vars /\ FairLive

\* FaceFusionQueue whose worker, once started, is not stopped; the event loop
\* runs the worker when it is ready, and every awaited subprocess and callback
\* returns.
NextQueueRunning ==
    \/ QStart
    \/ QClientAdd
    \/ QWorkerGet
    \/ QWorkerSwapDone
    \/ QWorkerCallbackDone
FairQueueRunning ==
    WF_vars(QWorkerGet) /\ WF_vars(QWorkerSwapDone) /\ WF_vars(QWorkerCallbackDone)
SpecQueueRunning == InitQueue /\ [][NextQueueRunning]_vars /\ FairQueueRunning
SpecRunner == InitRunner /\ [][NextRunner]_vars
Spec == Init /\ [][Next]_vars

\* ------------------------------------------------------------------ properties
admitted_ids == {admitted[k] : k \in 1..Len(admitted)}
finished_ids == {finished[k].job_id : k \in 1..Len(finished)}
StatusNames == {order[i] : i \in 1..Len(order)}
Pipelines == {"gpt_only_pipeline", "face_only_pipeline", "full_pipeline"}

\* the status rows of job j's event log, in the order they were written
status_rows(j) == SelectSeq(db_events[j], LAMBDA e : e.name \in StatusNames)

\* C1: at most one FaceFusion process started by _run_single_face_swap is in
\* progress at any instant, whatever add_job, start() and stop() calls are made.
C1_SingleFlight == Cardinality(procs) <= 1

\* C2: for two jobs A admitted before B, once a swap of B has been invoked every
\* swap of A and A's completion callback have finished.
C2_AdmissionOrder ==
    \A a, b \in 1..Len(admitted) :
        (a < b /\ \E k \in 1..Len(swap_calls) : swap_calls[k].job_id = admitted[b])
            => /\ admitted[a] \in finished_ids
               /\ \A p \in procs : p.job_id # admitted[a]

C4_TerminalImmutable ==
    [][\A j \in JobIds :
          (jobs[j] # NoJob /\ jobs[j].status \in {COMPLETED, FAILED})
              => jobs'[j] = jobs[j]]_vars

\* the rows of the transition table, with "faceswap" as the swapping state and
\* failed reachable from every non-terminal state
TransitionTable ==
    {<<"queued", "editing">>, <<"queued", "faceswap">>, <<"editing", "edited">>,
     <<"edited", "done">>, <<"edited", "faceswap">>, <<"faceswap", "finalizing">>,
     <<"finalizing", "done">>}
    \cup {<<st, "failed">> : st \in StatusNames \ {"done", "failed"}}

\* the status pairs each pipeline writes
PipelineRows(pipeline) ==
    CASE pipeline = "gpt_only_pipeline" ->
            {<<"queued", "editing">>, <<"editing", "done">>, <<"editing", "failed">>}
      [] pipeline = "face_only_pipeline" ->
            {<<"queued", "faceswap">>, <<"faceswap", "done">>, <<"faceswap", "failed">>}
      [] pipeline = "full_pipeline" ->
            {<<"queued", "editing">>, <<"editing", "edited">>, <<"editing", "failed">>,
             <<"edited", "faceswap">>, <<"edited", "finalizing">>,
             <<"edited", "failed">>, <<"faceswap", "finalizing">>,
             <<"faceswap", "failed">>, <<"finalizing", "done">>}

\* C5 as stated: each successive pair of statuses a pipeline writes for one job is
\* a row of the transition table; editing is followed only by edited or failed,
\* faceswap only by finalizing or failed.
C5_TableRows ==
    \A j \in DbJobIds : \A k \in 1..(Len(status_rows(j)) - 1) :
        status_rows(j)[k + 1].by \in Pipelines
            => <<status_rows(j)[k].name, status_rows(j)[k + 1].name>> \in TransitionTable

\* C5 amended: each successive pair of statuses a pipeline writes for one job is
\* one of the pairs of that pipeline: gpt_only_pipeline goes from editing
\* straight to done, face_only_pipeline from faceswap straight to done, and
\* full_pipeline without faces from edited to finalizing.
C5_PipelineRows ==
    \A j \in DbJobIds : \A k \in 1..(Len(status_rows(j)) - 1) :
        status_rows(j)[k + 1].by \in Pipelines
            => <<status_rows(j)[k].name, status_rows(j)[k + 1].name>>
                   \in PipelineRows(status_rows(j)[k + 1].by)

\* C5 witness: gpt_only_pipeline has written done right after editing, and
\* full_pipeline has written finalizing right after edited.
C5_Witness ==
    /\ \E j \in DbJobIds : \E k \in 1..(Len(status_rows(j)) - 1) :
          /\ status_rows(j)[k].name = "editing"
          /\ status_rows(j)[k + 1].name = "done"
          /\ status_rows(j)[k + 1].by = "gpt_only_pipeline"
    /\ \E j \in DbJobIds : \E k \in 1..(Len(status_rows(j)) - 1) :
          /\ status_rows(j)[k].name = "edited"
          /\ status_rows(j)[k + 1].name = "finalizing"
          /\ status_rows(j)[k + 1].by = "full_pipeline"

\* the swap stage of database job j has been started: "faceswap" written and
\* run_facefusion_runner called
swap_stage_started(j) ==
    \/ ppc[j] \in {"facefusion", "swap_copy"}
    \/ preq[j].raised = "swap"
    \/ \E k \in 1..Len(db_events[j]) : db_events[j][k].name = "faceswap"

\* C6: in a job run by full_pipeline or process_full_workflow the swap stage
\* (run_facefusion_runner, admission into the face queue) is started only after
\* the edit stage has succeeded, and never once the edit stage has failed.
C6_EditBeforeSwap ==
    /\ \A j \in JobIds :
          (hreq[j] # NoJob /\ hreq[j].handler = "process_full_workflow")
              => /\ j \in admitted_ids => edit_state[j] = "ok"
                 /\ edit_state[j] = "failed"
                       => /\ j \notin admitted_ids
                          /\ \A k \in 1..Len(swap_calls) : swap_calls[k].job_id # j
    /\ \A j \in DbJobIds :
          (preq[j] # NoJob /\ preq[j].runner = "full_pipeline")
              => /\ swap_stage_started(j)
                       => \E k \in 1..Len(db_events[j]) : db_events[j][k].name = "gpt:done"
                 /\ preq[j].raised = "edit" => ~swap_stage_started(j)

\* C6 witness: a process_full_workflow job admitted into the face queue while
\* another one's edit has failed.
C6_Witness ==
    /\ \E j \in JobIds :
          /\ hreq[j] # NoJob
          /\ hreq[j].handler = "process_full_workflow"
          /\ j \in admitted_ids
    /\ \E j \in JobIds :
          /\ hreq[j] # NoJob
          /\ hreq[j].handler = "process_full_workflow"
          /\ edit_state[j] = "failed"

\* C7: when the edit stage raises under process_image_with_webhook the job is
\* failed with a recorded error, and with WEBHOOK_URL configured the runner ends
\* only after posting a webhook; every webhook posted is "image-processing.failed".
C7_EditFailureNotified ==
    \A j \in DbJobIds :
        (preq[j] # NoJob /\ preq[j].runner = "process_image_with_webhook"
             /\ preq[j].raised = "edit")
            => /\ db_jobs[j].status = "failed"
               /\ db_jobs[j].error \notin {"None", ""}
               /\ \A k \in 1..Len(posts[j]) :
                     posts[j][k].event = "image-processing.failed"
               /\ (env /\ ppc[j] = "done") => posts[j] # <<>>

\* C7 witness: the runner has ended after an edit failure with WEBHOOK_URL set.
C7_Witness ==
    \E j \in DbJobIds :
        /\ preq[j] # NoJob
        /\ preq[j].runner = "process_image_with_webhook"
        /\ preq[j].raised = "edit"
        /\ env
        /\ ppc[j] = "done"
        /\ posts[j] # <<>>

\* C8: whenever a job's status is done, progress_of_status of it is exactly 100.
C8_DoneIsHundred ==
    \A j \in DbJobIds :
        (db_jobs[j] # NoJob /\ db_jobs[j].status = "done")
            => progress_of_status(db_jobs[j].status) = 100

\* C9: along the statuses written for one database-backed job, failures
\* included, progress_of_status never decreases.
C9_ProgressNeverDecreases ==
    \A j \in DbJobIds : \A k \in 1..(Len(status_rows(j)) - 1) :
        progress_of_status(status_rows(j)[k].name)
            <= progress_of_status(status_rows(j)[k + 1].name)

\* C9 witness: a job that failed in its swap stage, after four earlier statuses,
\* and a job that went all the way to done.
C9_Witness ==
    /\ \E j \in DbJobIds :
          /\ Len(status_rows(j)) >= 5
          /\ status_rows(j)[Len(status_rows(j))].name = "failed"
    /\ \E j \in DbJobIds :
          /\ Len(status_rows(j)) >= 6
          /\ status_rows(j)[Len(status_rows(j))].name = "done"

\* C10: the progress of an in-memory job is always an integer between 0 and 100
\* and never decreases, also when the job fails.
C10_ProgressRange ==
    [][\A j \in JobIds :
          jobs'[j] # NoJob
              => /\ jobs'[j].progress \in 0..100
                 /\ jobs[j] # NoJob => jobs'[j].progress >= jobs[j].progress]_vars

\* the invocations of _run_single_face_swap made for job j, in order, and those
\* of them that started the FaceFusion process
calls_of(j) == SelectSeq(swap_calls, LAMBDA c : c.job_id = j)
started_calls_of(j) == SelectSeq(swap_calls, LAMBDA c : c.job_id = j /\ c.started)

\* job j went through the face queue of ImageService with at least one usable
\* face reference and an existing target, its sequence has ended, and no
\* FaceFusion process started for it has failed
face_job_ended(j) ==
    /\ hreq[j] # NoJob
    /\ hreq[j].handler \in {"process_full_workflow", "process_face_only"}
    /\ hreq[j].base_exists
    /\ Len(person_paths(hreq[j].person_ids)) >= 1
    /\ j \in finished_ids
    /\ \A k \in 1..Len(swap_calls) :
          (swap_calls[k].job_id = j /\ swap_calls[k].started)
              => swap_calls[k].result # "failed"

\* the image process_full_workflow / process_face_only hands over as target
target_image_of(j) ==
    IF hreq[j].handler = "process_full_workflow" THEN "gpt_result.jpg" ELSE "target"

\* C11: a job of process_full_workflow or process_face_only with N usable face
\* references and no failure of the external tool has the FaceFusion process
\* started exactly N times, first on the job's target image and then on the
\* output of the invocation before.
C11_SwapCount ==
    \A j \in JobIds :
        face_job_ended(j)
            => LET n == Len(person_paths(hreq[j].person_ids))
                   calls == started_calls_of(j) IN
               /\ Len(calls) = n
               /\ calls[1].target = target_image_of(j)
               /\ \A k \in 1..(n - 1) : calls[k + 1].target = output_path(k, n)

\* C12: the position index passed to each swap invocation of an ImageService
\* job equals the index its face reference had in person_ids, also when earlier
\* references were skipped.
C12_OriginalPosition ==
    \A k \in 1..Len(swap_calls) :
        swap_calls[k].source.kind = "pair"
            => swap_calls[k].face_position = swap_calls[k].source.index

\* C13: once an invocation of a job's face sequence has failed, no later
\* invocation is made for that job, the sequence ends with failure, and the
\* JobManager job ends failed without a result_path.
C13_AbortOnFailure ==
    /\ \A k \in 1..Len(swap_calls) :
          swap_calls[k].result = "failed"
              => \A m \in (k + 1)..Len(swap_calls) :
                    swap_calls[m].job_id # swap_calls[k].job_id
    /\ \A f \in 1..Len(finished) :
          (\E k \in 1..Len(swap_calls) :
              swap_calls[k].job_id = finished[f].job_id
                  /\ swap_calls[k].result = "failed")
              => /\ ~finished[f].success
                 /\ finished[f].job_id \in JobIds
                       => /\ jobs[finished[f].job_id].status = FAILED
                          /\ jobs[finished[f].job_id].result_path = "None"

\* C13 witness: the FaceFusion process of the first of two faces has failed and
\* the job's sequence has ended.
C13_Witness ==
    \E k \in 1..Len(swap_calls) :
        /\ swap_calls[k].started
        /\ swap_calls[k].result = "failed"
        /\ swap_calls[k].face_position = 0
        /\ swap_calls[k].n = 2
        /\ swap_calls[k].job_id \in finished_ids

\* C14: a process_full_workflow job with two usable face references whose edit
\* succeeded and whose external tool never failed ends completed, with the
\* output of the second swap as result_path and progress 100.
C14_BothModeResult ==
    \A j \in JobIds :
        (/\ face_job_ended(j)
         /\ hreq[j].handler = "process_full_workflow"
         /\ Len(person_paths(hreq[j].person_ids)) = 2
         /\ edit_state[j] = "ok")
            => /\ jobs[j].status = COMPLETED
               /\ jobs[j].result_path = output_path(2, 2)
               /\ jobs[j].progress = 100

\* the notification of database job j has finished and every POST made for it
\* was answered with status 500
always_500(j) ==
    /\ ppc[j] = "done"
    /\ posts[j] # <<>>
    /\ \A k \in 1..Len(posts[j]) : posts[j][k].status_code = 500

\* C15 as stated: against a transport that answers every POST with 500,
\* send_webhook makes exactly max_retries + 1 attempts, returns false, and
\* webhook_status is recorded as failed.
C15_RetriesPlusOne ==
    \A j \in DbJobIds :
        always_500(j) => /\ Len(posts[j]) = max_retries + 1
                         /\ db_jobs[j].webhook_status = "failed"

\* C15 amended: against a transport that answers every POST with 500,
\* send_webhook makes exactly max_retries attempts (3: the first one included),
\* returns false, and webhook_status is recorded as failed.
C15_ExactlyMaxRetries ==
    \A j \in DbJobIds :
        always_500(j) => /\ Len(posts[j]) = max_retries
                         /\ db_jobs[j].webhook_status = "failed"

\* C15 witness: a notification that ended after POSTs answered 500 only.
C15_Witness == \E j \in DbJobIds : always_500(j) /\ db_jobs[j].webhook_status = "failed"

\* the _send_webhook tasks of the JobManager jobs, as <<job, index>> pairs
hook_tasks == {jt \in JobIds \X (1..(MaxCalls + 2)) : jt[2] <= Len(mwebhooks[jt[1]])}

\* C16: one notification is attempted at most max_retries+1 times by
\* WebhookSender and at most retry_count+1 times by WebhookService; its attempts
\* are made one after the other (each is answered before the next is made, so
\* they form a sequence), and no attempt follows an attempt that succeeded.
C16_AttemptsBounded ==
    /\ \A j \in DbJobIds :
          /\ Len(posts[j]) <= max_retries + 1
          /\ \A k \in 1..(Len(posts[j]) - 1) : ~delivered(posts[j][k].status_code)
          /\ ppc[j] \in {"post_completed", "post_failed"}
                => \A k \in 1..Len(posts[j]) : ~delivered(posts[j][k].status_code)
    /\ \A jt \in hook_tasks :
          LET task == mwebhooks[jt[1]][jt[2]] IN
          /\ Len(task.posts) <= retry_count + 1
          /\ \A k \in 1..(Len(task.posts) - 1) : ~hook_delivered(task.posts[k])
          /\ task.pc \in {"created", "sleeping"}
                => \A k \in 1..Len(task.posts) : ~hook_delivered(task.posts[k])

\* C16 witness: a WebhookService notification that used all retry_count+1
\* attempts and ended with a delivered one
C16_Witness ==
    \E jt \in hook_tasks :
        LET task == mwebhooks[jt[1]][jt[2]] IN
        /\ Len(task.posts) = retry_count + 1
        /\ task.pc = "sent"

\* C17: at most one webhook notification (completion or failure) is ever
\* initiated for a JobManager job, whatever update_status / update_job_status
\* calls are made.
C17_AtMostOneWebhook == \A j \in JobIds : Len(mwebhooks[j]) <= 1

\* the notifier of job j has been called and has not returned
notifying(j) == ppc[j] \in {"post_completed", "post_failed"}

\* C18: the outcome of webhook delivery (success, failed attempts, exhaustion of
\* the retries) never changes a job's status: every step taken while the
\* notifier runs, the recording of its outcome included, leaves status as it
\* was when the notifier was called.
C18_DeliveryKeepsStatus ==
    [][\A j \in DbJobIds : notifying(j) => db_jobs'[j].status = db_jobs[j].status]_vars

\* C18 witness: the notifier of a done job has returned after failed attempts
\* only, the outcome is recorded and the status is still done
C18_Witness ==
    \E j \in DbJobIds :
        /\ ~notifying(j)
        /\ posts[j] # <<>>
        /\ db_jobs[j].webhook_status = "failed"
        /\ db_jobs[j].status = "done"

\* the notifier of job j was called and has returned
notified(j) == posts[j] # <<>> /\ ~notifying(j)

\* what the notifier of job j returned: True exactly when its last attempt was
\* answered with a delivered status
reported_delivery(j) == delivered(posts[j][Len(posts[j])].status_code)

\* webhook_status of job j follows its notification
webhook_status_follows(j) ==
    db_jobs[j].webhook_status =
        IF ~notified(j) THEN "pending"
        ELSE IF reported_delivery(j) THEN "sent"
        ELSE "failed"

\* once sent or failed, webhook_status stays and no further attempt is made
webhook_status_final(j) ==
    (db_jobs[j] # NoJob /\ db_jobs[j].webhook_status \in {"sent", "failed"})
        => /\ db_jobs'[j].webhook_status = db_jobs[j].webhook_status
           /\ posts'[j] = posts[j]

\* C19 as stated, for every database-backed job: webhook_status is pending from
\* creation until a notification finishes, then sent iff the notifier reported
\* delivery and failed otherwise; afterwards it never changes and no further
\* delivery is attempted.
C19_EveryJob ==
    /\ [](\A j \in DbJobIds : db_jobs[j] # NoJob => webhook_status_follows(j))
    /\ [][\A j \in DbJobIds : webhook_status_final(j)]_vars

\* C19 for the jobs that have a notifier, those of create_image_job run by
\* process_image_with_webhook: pending until the notification finishes, then
\* sent iff delivery was reported, failed otherwise, and final.
C19_ImageJobs ==
    /\ [](\A j \in DbJobIds :
            (db_jobs[j] # NoJob /\ preq[j].runner = "process_image_with_webhook")
                => webhook_status_follows(j))
    /\ [][\A j \in DbJobIds : webhook_status_final(j)]_vars

\* C19 witness: a notification that finished with a delivered attempt after a
\* failed one, recorded as sent
C19_Witness ==
    \E j \in DbJobIds :
        /\ notified(j)
        /\ Len(posts[j]) >= 2
        /\ reported_delivery(j)
        /\ db_jobs[j].webhook_status = "sent"

\* C20: in every observable state a database-backed job's status equals the
\* name of its most recently appended status event, and a job that is not in
\* the store has no status event: create_job and set_status commit the Job row
\* and the JobEvent row together.
C20_StatusIsLatestEvent ==
    \A j \in DbJobIds :
        IF db_jobs[j] = NoJob THEN status_rows(j) = <<>>
        ELSE /\ status_rows(j) # <<>>
             /\ db_jobs[j].status = status_rows(j)[Len(status_rows(j))].name

\* C20 witness: a job that went through at least three status writes and is
\* failed, its last status event being that failure
C20_Witness ==
    \E j \in DbJobIds :
        /\ db_jobs[j] # NoJob
        /\ Len(status_rows(j)) >= 3
        /\ db_jobs[j].status = "failed"
        /\ status_rows(j)[Len(status_rows(j))].name = "failed"

\* an in-memory job of process_full_workflow none of whose person_ids is usable
full_without_faces(j) ==
    /\ hreq[j] # NoJob
    /\ hreq[j].handler = "process_full_workflow"
    /\ person_paths(hreq[j].person_ids) = <<>>

\* C21: a both-mode job with no usable face references is never admitted to the
\* face queue and never has a swap invoked, and once its edit stage has
\* succeeded (and, in full_pipeline, its output is copied) the job is
\* done/completed with the edit stage's output as its result.
C21_EditOutputIsResult ==
    /\ \A j \in JobIds :
          full_without_faces(j) =>
              /\ j \notin admitted_ids
              /\ calls_of(j) = <<>>
              /\ (hpc[j] = "done" /\ edit_state[j] = "ok")
                    => /\ jobs[j].status = COMPLETED
                       /\ jobs[j].result_path = "gpt_result.jpg"
    /\ \A j \in DbJobIds :
          (db_jobs[j] # NoJob /\ preq[j].runner = "full_pipeline" /\ preq[j].faces = 0)
              => /\ ~swap_stage_started(j)
                 /\ ff_lock # j
                 /\ (ppc[j] = "done" /\ preq[j].raised = "none")
                       => /\ db_jobs[j].status = "done"
                          /\ preq[j].result = "edited.png"

\* C21 witness: a process_full_workflow job whose person_ids are present but
\* none usable has completed with the edit output
C21_Witness ==
    \E j \in JobIds :
        /\ full_without_faces(j)
        /\ hreq[j].person_ids # <<>>
        /\ hpc[j] = "done"
        /\ jobs[j].status = COMPLETED
        /\ jobs[j].result_path = "gpt_result.jpg"

\* C22: a swap-only job submitted with an empty face-reference list completes
\* with status completed and a result equal to the original input artifact, with
\* no swap invocation: through process_face_only (which does not admit it to the
\* queue) and through _process_face_swap for a job_data with no source_faces.
C22_EmptyFacesKeepInput ==
    /\ \A j \in JobIds :
          (hreq[j] # NoJob /\ hreq[j].handler = "process_face_only"
                           /\ hreq[j].person_ids = <<>>)
              => /\ calls_of(j) = <<>>
                 /\ j \notin admitted_ids
                 /\ hpc[j] = "done" => /\ jobs[j].status = COMPLETED
                                        /\ jobs[j].result_path = "target"
    /\ \A f \in 1..Len(finished) :
          finished[f].faces = 0
              => /\ finished[f].success
                 /\ finished[f].result = "target"
                 /\ calls_of(finished[f].job_id) = <<>>

\* C22 witness: a process_face_only job with person_ids = [] has completed
\* with the target image as its result
C22_Witness ==
    \E j \in JobIds :
        /\ hreq[j] # NoJob
        /\ hreq[j].handler = "process_face_only"
        /\ hreq[j].person_ids = <<>>
        /\ hpc[j] = "done"
        /\ jobs[j].status = COMPLETED
        /\ jobs[j].result_path = "target"

\* C23: in every reachable state a job whose status is failed has a non-empty
\* error string, whatever exception caused the failure (stated on the Job table).
C23_FailedHasError ==
    \A j \in DbJobIds :
        (db_jobs[j] # NoJob /\ db_jobs[j].status = "failed")
            => db_jobs[j].error \notin {"None", ""}

\* C24: for every JobManager job result_path and error are never both set;
\* result_path is set at most once and only for a job that is completed, error
\* only for a job that is failed.
C24_ResultXorError ==
    /\ [](\A j \in JobIds :
            jobs[j] # NoJob =>
                /\ ~(jobs[j].result_path # "None" /\ jobs[j].error # "None")
                /\ jobs[j].result_path # "None" => jobs[j].status = COMPLETED
                /\ jobs[j].error # "None" => jobs[j].status = FAILED)
    /\ [][\A j \in JobIds :
            (jobs[j] # NoJob /\ jobs[j].result_path # "None")
                => jobs'[j].result_path = jobs[j].result_path]_vars

\* C24 witness: one job completed with a result and no error next to one job
\* failed, through the face queue, with an error and no result
C24_Witness ==
    \E j, k \in JobIds :
        /\ jobs[j] # NoJob /\ jobs[k] # NoJob
        /\ jobs[j].status = COMPLETED
        /\ jobs[j].result_path # "None" /\ jobs[j].error = "None"
        /\ k \in finished_ids
        /\ jobs[k].status = FAILED
        /\ jobs[k].error # "None" /\ jobs[k].result_path = "None"

\* C25: each unit handed to run_async_task is executed at most once, on a
\* worker thread of the pool and never on the caller's thread, and the step in
\* which run_async_task returns (or raises) executes nothing: the unit is left
\* queued or rejected.
C25_AtMostOnceOffCaller ==
    /\ [](\A u \in UnitIds :
            /\ units[u].runs <= 1
            /\ ~units[u].inline
            /\ units[u].state = "running" => units[u].thread \in WorkerThreads
            /\ units[u].state \in {"none", "queued", "rejected"} => units[u].runs = 0)
    /\ [][\A u \in UnitIds :
            (units[u].state = "none" /\ units'[u].state # "none")
                => /\ units'[u].state \in {"queued", "rejected"}
                   /\ units'[u].runs = 0]_vars

\* C25 witness: run_async_task has returned for every unit; max_workers of them
\* are being executed, each for the first time and on a thread of its own,
\* while the last one handed over waits in the queue
C25_Witness ==
    /\ busy_threads = WorkerThreads
    /\ \E v \in UnitIds : units[v].state = "queued" /\ executor.work_queue = <<v>>
    /\ \A u \in UnitIds : units[u].state = "running" => units[u].runs = 1

\* C26: when scheduling the background execution of a job fails, the job is
\* marked failed; it is never left queued with no pipeline running for it.
C26_RejectedJobFailed ==
    \A u \in UnitIds : units[u].state = "rejected" => units[u].job = "failed"

C28_CurrentTaskIsExecuting ==
    IF worker.pc \in {"swap", "callback"}
    THEN get_current_task = worker.job.job_id
    ELSE get_current_task = None

\* job j is waiting in the queue and its job_data has a callback
waiting_with_callback(j) ==
    \E k \in 1..Len(queue) : queue[k].job_id = j /\ queue[k].callback # "none"

\* the invocations of job j's completion callback so far: the one being awaited
\* by the worker and the ones that have returned
callback_invocations(j) ==
    (IF worker.pc = "callback" /\ worker.job.job_id = j
     THEN <<[success |-> worker.success, faces |-> Len(worker.job.source_faces)]>>
     ELSE <<>>)
    \o SelectSeq([k \in 1..Len(finished) |->
                     [success |-> finished[k].success, faces |-> finished[k].faces,
                      job_id |-> finished[k].job_id,
                      callback |-> finished[k].callback]],
                 LAMBDA f : f.job_id = j /\ f.callback # "none")

\* every face of job j's sequence was swapped and every swap succeeded
sequence_succeeded(j, faces) ==
    /\ Len(calls_of(j)) = faces
    /\ \A k \in 1..Len(calls_of(j)) : calls_of(j)[k].result = "ok"

\* C29: while the worker is running, every job admitted with add_job eventually
\* has its completion callback invoked exactly once, with the aggregate success
\* or failure of its whole face sequence, and only after the job's last swap
\* invocation has ended.
C29_CallbackOnceAfterLastSwap ==
    /\ \A j \in ClientIds :
          (is_running /\ waiting_with_callback(j))
              ~> (Len(callback_invocations(j)) = 1)
    /\ [](\A j \in ClientIds :
            /\ Len(callback_invocations(j)) <= 1
            /\ \A k \in 1..Len(callback_invocations(j)) :
                  /\ callback_invocations(j)[k].success
                        <=> sequence_succeeded(j, callback_invocations(j)[k].faces)
                  /\ \A c \in 1..Len(calls_of(j)) : calls_of(j)[c].result # "running"
                  /\ \A p \in procs : p.job_id # j)
    /\ [][\A j \in ClientIds :
            Len(callback_invocations(j)) = 1
                => /\ Len(callback_invocations(j)') = 1
                   /\ calls_of(j)' = calls_of(j)]_vars

\* C29 witness: a job of two faces got its callback with success after both
\* swaps, and a job admitted after it got its callback with a failure
C29_Witness ==
    \E a, b \in ClientIds :
        /\ a # b
        /\ Len(callback_invocations(a)) = 1 /\ Len(callback_invocations(b)) = 1
        /\ callback_invocations(a)[1].success /\ callback_invocations(a)[1].faces = 2
        /\ Len(calls_of(a)) = 2
        /\ ~callback_invocations(b)[1].success
        /\ worker.pc = "idle"

\* sequence a is a prefix of sequence b
is_prefix(a, b) == Len(a) <= Len(b) /\ \A k \in 1..Len(a) : a[k] = b[k]

C31_NoRetry ==
    /\ [](\A a, b \in 1..Len(swap_calls) :
            (a # b /\ swap_calls[a].job_id = swap_calls[b].job_id)
                => swap_calls[a].face_position # swap_calls[b].face_position)
    /\ [](\A j \in JobIds :
            edit_state[j] = "failed" => /\ jobs[j].status = FAILED
                                        /\ hpc[j] = "done")
    /\ [][\A j \in JobIds :
            /\ edit_state[j] \in {"ok", "failed"} => edit_state'[j] = edit_state[j]
            /\ (edit_state[j] = "running" /\ edit_state'[j] = "failed")
                  => jobs'[j].status = FAILED]_vars

\* C31 witness: the edit of one job has failed and the job is failed; another
\* job's edit succeeded and its first swap was invoked
C31_Witness ==
    \E a, b \in JobIds :
        /\ edit_state[a] = "failed" /\ jobs[a].status = FAILED
        /\ edit_state[b] = "ok"
        /\ \E k \in 1..Len(swap_calls) : swap_calls[k].job_id = b

\* C32: at most one pipeline is inside the critical section of
\* run_facefusion_runner at any instant, for pipelines of one event loop and
\* for pipelines dispatched on different BackgroundTaskRunner threads.
C32_OneInSection ==
    /\ Cardinality({u \in UnitIds : units[u].section = "inside"}) <= 1
    /\ Cardinality({j \in DbJobIds : ppc[j] = "swap_copy" /\ preq[j].faces > 0}) <= 1

\* C33: for one notification sent by WebhookSender.send_webhook every attempt
\* posts the same body bytes, and the X-Webhook-Signature header of every
\* attempt is the HMAC-SHA256 of exactly those bytes under the shared secret,
\* sent together with the X-Webhook-Event header.
C33_SignedBody ==
    \A j \in DbJobIds : \A k \in 1..Len(posts[j]) :
        /\ posted_request(j, k).content = posted_request(j, 1).content
        /\ posted_request(j, k).header_signature
              = [prefix |-> "sha256=",
                 hexdigest |-> hmac_sha256(WEBHOOK_SECRET, posted_request(j, k).content)]
        /\ posted_request(j, k).header_event = posts[j][k].event
        /\ posted_request(j, k).header_event = posted_request(j, 1).header_event

\* C33 witness: a failure notification whose message has a character outside
\* ASCII was posted in three attempts
C33_Witness ==
    \E j \in DbJobIds :
        /\ Len(posts[j]) = 3
        /\ \E b \in 1..Len(posted_request(j, 3).content) :
              posted_request(j, 3).content[b] >= 128

\* C34: for a database-backed job run by process_image_with_webhook at most
\* one notification is sent over the job's lifetime (its attempts carry one
\* payload and one event), and the event matches the job's final status:
\* completed only for a job that is done, failed only for a job that is failed.
C34_OneMatchingNotification ==
    \A j \in DbJobIds :
        /\ Len(posts[j]) <= max_retries
        /\ posts[j] # <<>> => /\ db_jobs[j] # NoJob
                              /\ preq[j].runner = "process_image_with_webhook"
        /\ \A k \in 1..Len(posts[j]) :
              /\ posted_request(j, k) = posted_request(j, 1)
              /\ posts[j][k].event = "image-processing.completed"
                    => db_jobs[j].status = "done"
              /\ posts[j][k].event = "image-processing.failed"
                    => db_jobs[j].status = "failed"
              /\ posts[j][k].event \in {"image-processing.completed",
                                        "image-processing.failed"}

\* C34 witness: one job ended done and its completed notification was
\* delivered, another ended failed and its failed notification was given up
C34_Witness ==
    \E a, b \in DbJobIds :
        /\ ppc[a] = "done" /\ db_jobs[a].status = "done"
        /\ posts[a] # <<>> /\ posts[a][1].event = "image-processing.completed"
        /\ db_jobs[a].webhook_status = "sent"
        /\ ppc[b] = "done" /\ db_jobs[b].status = "failed"
        /\ Len(posts[b]) = max_retries
        /\ db_jobs[b].webhook_status = "failed"

\* C35: in both notifiers (WebhookSender.send_webhook and
\* WebhookService._send_webhook) a response with any 2xx status code ends the
\* delivery at once as delivered, with no retry.
C35_Any2xxDelivers ==
    /\ \A j \in DbJobIds : \A k \in 1..Len(posts[j]) :
          (posts[j][k].status_code >= 200 /\ posts[j][k].status_code < 300)
              => /\ k = Len(posts[j])
                 /\ ppc[j] = "done"
                 /\ db_jobs[j].webhook_status = "sent"
    /\ \A j \in JobIds : \A t \in 1..Len(mwebhooks[j]) :
          \A k \in 1..Len(mwebhooks[j][t].posts) :
              (mwebhooks[j][t].posts[k] >= 200 /\ mwebhooks[j][t].posts[k] < 300)
                  => /\ k = Len(mwebhooks[j][t].posts)
                     /\ mwebhooks[j][t].pc = "sent"

C37_StopDropsNothing ==
    worker = NoWorker
        => /\ get_current_task = None
           /\ \A a \in 1..Len(admitted) :
                 \/ admitted[a] \in finished_ids
                 \/ \E k \in 1..Len(queue) : queue[k].job_id = admitted[a]

\* C38: every JobEvent in the job store refers to a job that exists: set_status
\* and record_event called with an unknown job id append no event and change
\* no job.
C38_EventsHaveJobs ==
    \A j \in DbJobIds : db_jobs[j] = NoJob => db_events[j] = <<>>

\* C39: the event log of a database-backed job contains at most one terminal
\* event (named done or failed), for every pipeline outcome.
C39_OneTerminalEvent ==
    \A j \in DbJobIds :
        Len(SelectSeq(get_job_events(db_events, j),
                      LAMBDA e : e.name \in {"done", "failed"})) <= 1

\* C40: each job is admitted to the FaceFusionQueue at most once, and a job
\* waiting in the queue has status face_processing: no job with a terminal
\* status is ever waiting in the queue.
C40_QueuedIsFaceProcessing ==
    /\ \A a, b \in 1..Len(admitted) : a # b => admitted[a] # admitted[b]
    /\ \A a, b \in 1..Len(queue) : a # b => queue[a].job_id # queue[b].job_id
    /\ \A k \in 1..Len(queue) :
          queue[k].job_id \in JobIds
              => /\ jobs[queue[k].job_id] # NoJob
                 /\ jobs[queue[k].job_id].status = FACE_PROCESSING
                 /\ queue[k].job_id \in admitted_ids
                 /\ queue[k].job_id \notin finished_ids

\* C40 witness: two jobs are waiting in the queue, one admitted by
\* process_full_workflow and one by process_face_only
C40_Witness ==
    /\ Len(queue) = 2
    /\ \E a, b \in 1..2 :
          /\ hreq[queue[a].job_id].handler = "process_full_workflow"
          /\ hreq[queue[b].job_id].handler = "process_face_only"
          /\ jobs[queue[a].job_id].status = FACE_PROCESSING
          /\ jobs[queue[b].job_id].status = FACE_PROCESSING

====
